---- MODULE Spec2Model ----
(***************************************************************************)
(* Model of the oceanus-agent diagnosis workflow: the LangGraph state      *)
(* machine collect -> retrieve -> diagnose -> store -> accumulate (plus    *)
(* handle_error), the exception queue's claim transaction, and the two     *)
(* knowledge stores.                                                       *)
(*                                                                         *)
(* Conventions.  A Python Optional is a sequence of length 0 (None) or 1.  *)
(* A nullable string column / field that the code only tests for          *)
(* truthiness (error_type) is a string, "" standing for None/NULL.         *)
(* datetime.now() is a logical clock: the index of the stage invocation    *)
(* within the run (start_time is 0).                                       *)
(***************************************************************************)
EXTENDS Integers, Sequences, FiniteSets, Bags, TLC

\* ---------------------------------------------------------------- bounds
\* Workflow invocations made one after another by the batch runner.
NumRuns == 2
\* Workflow invocations overlapping in their claim (concurrent batches or
\* engine instances).
NumClaimants == 3
\* Exception records in the queue.
NumRecords == 2

\* Batches started by one agent (the one on startup, then the scheduler's).
NumBatches == 2
\* settings.scheduler.batch_size (SCHEDULER_BATCH_SIZE), kept small.
BatchSize == 2

RunIds == 1..NumRuns
ClaimantIds == 1..NumClaimants
BatchIds == 1..NumBatches
Slots == RunIds \cup ClaimantIds \cup BatchIds
RecIds == 1..NumRecords

\* ------------------------------------------------------ program constants
MaxRetries == 3
RouterRetryCap == 3
ConfidenceThreshold == 80
MaxSimilarCases == 3
MaxDocSnippets == 3

\* Confidence values the model endpoint may return, in percent.
Confidences == {50, 80}

\* Texts the model endpoint may return to the classification prompt, as
\* sequences of characters.
RawLabels == {<<" ", "O", "O", "M", " ">>, <<"n", "/", "a">>}

\* ------------------------------------------------------------ data model
None == <<>>
Some(x) == <<x>>
IsNone(o) == o = <<>>
Val(o) == o[1]

PENDING == "pending"
IN_PROGRESS == "in_progress"
COMPLETED == "completed"
FAILED == "failed"

END == "END"

\* An error message, kept in parts: prefix, the number formatted into it
\* (0 when there is none) and the text of the exception, str(e).
Msg(prefix, n, detail) == [prefix |-> prefix, n |-> n, detail |-> detail]

\* Python truthiness of state.get("error"): None and "" are falsy.
Truthy(err) ==
  /\ ~IsNone(err)
  /\ ~(Val(err).prefix = "" /\ Val(err).n = 0 /\ Val(err).detail = "")

\* str(e) of the exceptions the capabilities raise.  The LLM capability's
\* operations are wrapped by tenacity without reraise, so what surfaces is
\* a RetryError; the storage layer raises a driver error.
LLMError == "RetryError"
DBError == "OperationalError"

\* The error_type column of the exception records as created externally:
\* odd records arrive unclassified (NULL), even ones carry a label.
RecErrorType(x) == IF x % 2 = 1 THEN "" ELSE "oom"

RecJobId(x) == x

RecErrorMessage(x) == "Checkpoint timeout"

\* JobInfo built from a row of flink_job_exceptions.
JobInfo(x) ==
  [exception_id |-> x,
   job_id |-> RecJobId(x),
   error_message |-> RecErrorMessage(x),
   error_type |-> RecErrorType(x)]

\* DiagnosisWorkflow.run: the initial state of a run.
initial_state ==
  [job_info |-> None,
   status |-> PENDING,
   retrieved_context |-> None,
   diagnosis_result |-> None,
   start_time |-> 0,
   end_time |-> None,
   error |-> None,
   retry_count |-> 0]

VARIABLES
  pc,           \* run -> the node the run is at ("idle" before run())
  state,        \* run -> the run's DiagnosisState
  trace,        \* run -> the nodes executed so far, in order, each with
                \* the outcome of its external calls
  tx,           \* run -> the row selected by the run's open claim, 0 if none
  excStatus,    \* record -> persisted status column
  excLock,      \* record -> run holding the row lock, 0 if none
  excFix,       \* record -> persisted suggested_fix / confidence, Optional
  milvusCases,  \* the vector collection of cases
  mysqlCases,   \* the knowledge_cases table
  batch_count,  \* DiagnosisAgent._batch_count
  batch,        \* batch -> the locals of its run_diagnosis_batch call
  agent,        \* DiagnosisAgent.running, its scheduler, and where start()
                \* and main() are
  llm,          \* the call of an LLMService operation under study
  threads       \* the thread ids the agent has passed to workflow.run, each
                \* with the number of runs started under it

agentVars == <<batch_count, batch, agent>>

vars ==
  <<pc, state, trace, tx, excStatus, excLock, excFix, milvusCases, mysqlCases,
    batch_count, batch, agent, llm, threads>>

\* datetime.now() as seen by the stage the run is about to execute.
Now(r) == Len(trace[r]) + 1

\* ------------------------------------------------- LLM capability (pure)
IsSpace(c) == c \in {" ", "\n", "\t"}

RECURSIVE LStrip(_)
LStrip(s) ==
  IF s = <<>> THEN <<>>
  ELSE IF IsSpace(Head(s)) THEN LStrip(Tail(s)) ELSE s

RECURSIVE RStrip(_)
RStrip(s) ==
  IF s = <<>> THEN <<>>
  ELSE IF IsSpace(s[Len(s)]) THEN RStrip(SubSeq(s, 1, Len(s) - 1)) ELSE s

\* str.strip()
Strip(s) == RStrip(LStrip(s))

LowerLetters ==
  <<"a", "b", "c", "d", "e", "f", "g", "h", "i", "j", "k", "l", "m",
    "n", "o", "p", "q", "r", "s", "t", "u", "v", "w", "x", "y", "z">>

UpperLetters ==
  <<"A", "B", "C", "D", "E", "F", "G", "H", "I", "J", "K", "L", "M",
    "N", "O", "P", "Q", "R", "S", "T", "U", "V", "W", "X", "Y", "Z">>

LowerChar(c) ==
  IF \E i \in 1..26 : UpperLetters[i] = c
  THEN LowerLetters[CHOOSE i \in 1..26 : UpperLetters[i] = c]
  ELSE c

\* str.lower()
Lower(s) == [i \in 1..Len(s) |-> LowerChar(s[i])]

\* valid_types, each member spelled character by character and paired with
\* the label string stored in the job.
valid_types ==
  {<<<<"c", "h", "e", "c", "k", "p", "o", "i", "n", "t", "_",
       "f", "a", "i", "l", "u", "r", "e">>, "checkpoint_failure">>,
   <<<<"b", "a", "c", "k", "p", "r", "e", "s", "s", "u", "r", "e">>,
     "backpressure">>,
   <<<<"d", "e", "s", "e", "r", "i", "a", "l", "i", "z", "a", "t", "i", "o",
       "n", "_", "e", "r", "r", "o", "r">>, "deserialization_error">>,
   <<<<"o", "o", "m">>, "oom">>,
   <<<<"n", "e", "t", "w", "o", "r", "k">>, "network">>,
   <<<<"o", "t", "h", "e", "r">>, "other">>}

\* Variant: the text is compared as returned.
classify_error_AsReturned(raw) ==
  LET hit == {p \in valid_types : p[1] = raw}
  IN IF hit = {} THEN "other" ELSE (CHOOSE p \in hit : TRUE)[2]

\* LLMService.classify_error, given the text the endpoint returned.
classify_error(raw) ==
  LET error_type == Lower(Strip(raw))
      hit == {p \in valid_types : p[1] = error_type}
  IN IF hit = {} THEN "other" ELSE (CHOOSE p \in hit : TRUE)[2]

\* A DiagnosisResult with the given confidence (percent).
DiagnosisResult(c) ==
  [root_cause |-> "cause", suggested_fix |-> "fix", confidence |-> c]

\* ------------------------------------------------------- routing (graph)
\* Variant: a null job is looked at before the error.
should_continue_after_collect_JobFirst(s) ==
  IF IsNone(s.job_info) THEN END
  ELSE IF Truthy(s.error) THEN "handle_error"
  ELSE "retrieve"

\* Variant: a null job is not a reason to stop.
should_continue_after_collect_NoEnd(s) ==
  IF Truthy(s.error) THEN "handle_error" ELSE "retrieve"

should_continue_after_collect(s) ==
  IF Truthy(s.error) THEN "handle_error"
  ELSE IF IsNone(s.job_info) THEN END
  ELSE "retrieve"

\* Variant: the router gives up one attempt early.
should_continue_after_diagnose_CapTwo(s) ==
  IF Truthy(s.error)
  THEN IF s.retry_count < RouterRetryCap - 1 THEN "diagnose" ELSE "handle_error"
  ELSE "store"

\* Variant: a state without error but also without diagnosis is an error.
should_continue_after_diagnose_RequiresDiagnosis(s) ==
  LET retry_count == IF "retry_count" \in DOMAIN s THEN s.retry_count ELSE 0
  IN IF Truthy(s.error)
     THEN IF retry_count < RouterRetryCap THEN "diagnose" ELSE "handle_error"
     ELSE IF IsNone(s.diagnosis_result) THEN "handle_error" ELSE "store"

\* Variant: an exhausted run goes on to store.
should_continue_after_diagnose_ExhaustedToStore(s) ==
  LET retry_count == IF "retry_count" \in DOMAIN s THEN s.retry_count ELSE 0
  IN IF Truthy(s.error)
     THEN IF retry_count < RouterRetryCap THEN "diagnose" ELSE "store"
     ELSE "store"

\* Variant: the router allows one retry more than the stage.
should_continue_after_diagnose_CapFour(s) ==
  LET retry_count == IF "retry_count" \in DOMAIN s THEN s.retry_count ELSE 0
  IN IF Truthy(s.error)
     THEN IF retry_count < RouterRetryCap + 1 THEN "diagnose"
          ELSE "handle_error"
     ELSE "store"

\* state.get("retry_count", 0): a state without the key counts as 0.
should_continue_after_diagnose(s) ==
  LET retry_count == IF "retry_count" \in DOMAIN s THEN s.retry_count ELSE 0
  IN IF Truthy(s.error)
     THEN IF retry_count < RouterRetryCap THEN "diagnose" ELSE "handle_error"
     ELSE "store"

\* Variant: an end_time that is already set is kept.
handle_error_KeepsEndTime(s, now) ==
  [s EXCEPT !.status = FAILED,
            !.end_time = IF IsNone(s.end_time) THEN Some(now) ELSE s.end_time]

\* Variant: the handler drops the diagnosis of the failed run.
handle_error_DropsDiagnosis(s, now) ==
  [s EXCEPT !.status = FAILED,
            !.end_time = Some(now),
            !.diagnosis_result = None]

\* graph.handle_error
handle_error(s, now) ==
  [s EXCEPT !.status = FAILED, !.end_time = Some(now)]

\* ------------------------------------------------------ JobCollector node
\* get_pending_exception returned None.
CollectNone(s, now) ==
  [s EXCEPT !.job_info = None, !.status = COMPLETED, !.end_time = Some(now)]

\* get_pending_exception returned a JobInfo.
CollectFound(s, job) ==
  [s EXCEPT !.job_info = Some(job), !.status = IN_PROGRESS]

\* Variant: the except branch does not record the error.
CollectError_NoError(s, e, now) ==
  [s EXCEPT !.job_info = None, !.status = FAILED, !.end_time = Some(now)]

\* get_pending_exception raised.
CollectError(s, e, now) ==
  [s EXCEPT !.job_info = None,
            !.status = FAILED,
            !.error = Some(Msg("Collection error: ", 0, e)),
            !.end_time = Some(now)]

\* ------------------------------------------------- KnowledgeRetriever node
RetrieveOk(s, cases, docs) ==
  [s EXCEPT !.retrieved_context =
              Some([similar_cases |-> cases, doc_snippets |-> docs])]

\* Variant: the failure is propagated as the run's error.
RetrieveFail_Propagates(s) ==
  [s EXCEPT !.retrieved_context =
              Some([similar_cases |-> <<>>, doc_snippets |-> <<>>]),
            !.error = Some(Msg("Retrieval error: ", 0, LLMError))]

RetrieveFail(s) ==
  [s EXCEPT !.retrieved_context =
              Some([similar_cases |-> <<>>, doc_snippets |-> <<>>])]

\* ------------------------------------------------------ LLMDiagnoser node
\* Variant: success does not reset the retry counter.
DiagnoseOk_KeepsRetryCount(s, job, d) ==
  [s EXCEPT !.job_info = Some(job),
            !.diagnosis_result = Some(d),
            !.status = IN_PROGRESS,
            !.error = None]

\* Variant: the classified job_info is not put into the returned state.
DiagnoseOk_StaleJob(s, job, d) ==
  [s EXCEPT !.diagnosis_result = Some(d),
            !.status = IN_PROGRESS,
            !.error = None,
            !.retry_count = 0]

\* Variant: the returned job_info carries the label as its message.
DiagnoseOk_MessageReplaced(s, job, d) ==
  [s EXCEPT !.job_info = Some([job EXCEPT !.error_message = job.error_type]),
            !.diagnosis_result = Some(d),
            !.status = IN_PROGRESS,
            !.error = None,
            !.retry_count = 0]

\* The try block completed: job is the (possibly classified) job_info.
DiagnoseOk(s, job, d) ==
  [s EXCEPT !.job_info = Some(job),
            !.diagnosis_result = Some(d),
            !.status = IN_PROGRESS,
            !.error = None,
            !.retry_count = 0]

\* Variant: the cap is compared with > instead of >=.
DiagnoseFail_OffByOne(s, e, now) ==
  LET new_retry_count == s.retry_count + 1
  IN IF new_retry_count > MaxRetries
     THEN [s EXCEPT !.status = FAILED,
                    !.error = Some(Msg("Diagnosis failed after ",
                                       new_retry_count, e)),
                    !.end_time = Some(now),
                    !.retry_count = new_retry_count]
     ELSE [s EXCEPT !.error = Some(Msg("", 0, e)),
                    !.retry_count = new_retry_count]

\* Variant: exhaustion leaves the status to the error handler.
DiagnoseFail_StatusLeftToHandler(s, e, now) ==
  LET new_retry_count == s.retry_count + 1
  IN IF new_retry_count >= MaxRetries
     THEN [s EXCEPT !.error = Some(Msg("Diagnosis failed after ",
                                       new_retry_count, e)),
                    !.retry_count = new_retry_count]
     ELSE [s EXCEPT !.error = Some(Msg("", 0, e)),
                    !.retry_count = new_retry_count]

\* Variant: a failed attempt below the cap is not counted.
DiagnoseFail_NotCounted(s, e, now) ==
  LET new_retry_count == s.retry_count + 1
  IN IF new_retry_count >= MaxRetries
     THEN [s EXCEPT !.status = FAILED,
                    !.error = Some(Msg("Diagnosis failed after ",
                                       new_retry_count, e)),
                    !.end_time = Some(now),
                    !.retry_count = new_retry_count]
     ELSE [s EXCEPT !.error = Some(Msg("", 0, e))]

\* The try block raised e.
DiagnoseFail(s, e, now) ==
  LET new_retry_count == s.retry_count + 1
  IN IF new_retry_count >= MaxRetries
     THEN [s EXCEPT !.status = FAILED,
                    !.error = Some(Msg("Diagnosis failed after ",
                                       new_retry_count, e)),
                    !.end_time = Some(now),
                    !.retry_count = new_retry_count]
     ELSE [s EXCEPT !.error = Some(Msg("", 0, e)),
                    !.retry_count = new_retry_count]

\* ------------------------------------------------------ ResultStorer node
\* Variant: the completed branch does not stamp end_time.
StoreCompleted_NoEndTime(s, now) == [s EXCEPT !.status = COMPLETED]

StoreCompleted(s, now) ==
  [s EXCEPT !.status = COMPLETED, !.end_time = Some(now)]

StoreFailed(s, now) ==
  [s EXCEPT !.status = FAILED, !.end_time = Some(now)]

\* Variant: the except branch records the exception text without the marker.
StoreError_NoMarker(s, e, now) ==
  [s EXCEPT !.status = FAILED,
            !.error = Some(Msg("", 0, e)),
            !.end_time = Some(now)]

\* Variant: the except branch records the error but leaves the status.
StoreError_StatusKept(s, e, now) ==
  [s EXCEPT !.error = Some(Msg("Storage error: ", 0, e)),
            !.end_time = Some(now)]

\* The persistence call raised e.
StoreError(s, e, now) ==
  [s EXCEPT !.status = FAILED,
            !.error = Some(Msg("Storage error: ", 0, e)),
            !.end_time = Some(now)]

\* -------------------------------------------------- knowledge stores
\* The documentation collection (filled out of band).
DocSnippets == <<"doc-1">>

RECURSIVE SortedIds(_)
SortedIds(S) ==
  IF S = {} THEN <<>>
  ELSE LET m == CHOOSE x \in S : \A y \in S : x <= y
       IN <<m>> \o SortedIds(S \ {m})

Take(seq, n) == SubSeq(seq, 1, IF Len(seq) < n THEN Len(seq) ELSE n)

\* MilvusService.search_similar_cases: the case_ids of the hits, best first
\* (the model ranks by case_id), at most limit, filtered by error_type when
\* one is given.
search_similar_cases(error_type, limit) ==
  LET hits == {c \in milvusCases : error_type = "" \/ c.error_type = error_type}
  IN Take(SortedIds({c.case_id : c \in hits}), limit)

\* MilvusService.search_doc_snippets
search_doc_snippets(limit) == Take(DocSnippets, limit)

\* Variant: the identifier is not fresh: a stored case's identifier is
\* given again.
NewCaseId_Reused ==
  LET used == {c.case_id : c \in milvusCases \cup mysqlCases}
  IN IF used = {} THEN 1 ELSE CHOOSE n \in used : TRUE

\* uuid4: an identifier no stored case carries.
NewCaseId ==
  LET used == {c.case_id : c \in milvusCases} \cup {c.case_id : c \in mysqlCases}
  IN CHOOSE n \in 1..(Cardinality(used) + 1) :
       n \notin used /\ \A m \in 1..(n - 1) : m \in used

\* The entity MilvusService.insert_case writes.
MilvusCase(case_id, job, d) ==
  [case_id |-> case_id,
   error_type |-> IF job.error_type = "" THEN "other" ELSE job.error_type,
   root_cause |-> d.root_cause,
   solution |-> d.suggested_fix]

\* The row MySQLService.insert_knowledge_case writes.
MySQLCase(case_id, job, d) ==
  [case_id |-> case_id,
   error_type |-> IF job.error_type = "" THEN "other" ELSE job.error_type,
   root_cause |-> d.root_cause,
   solution |-> d.suggested_fix,
   source_exception_id |-> job.exception_id,
   source_type |-> "auto",
   verified |-> FALSE]

\* Variant: a confidence equal to the threshold is skipped.
ShouldAccumulate_Strict(s) ==
  /\ ~IsNone(s.job_info)
  /\ ~IsNone(s.diagnosis_result)
  /\ ~(Val(s.diagnosis_result).confidence <= ConfidenceThreshold)

\* KnowledgeAccumulator.__call__: does the stage attempt to accumulate?
ShouldAccumulate(s) ==
  /\ ~IsNone(s.job_info)
  /\ ~IsNone(s.diagnosis_result)
  /\ ~(Val(s.diagnosis_result).confidence < ConfidenceThreshold)

\* Variant: a failed accumulation fails the run.
AccumulateReturn_FailsRun(s, outcome) ==
  IF outcome \in {"embedding_raises", "milvus_raises", "mysql_raises"}
  THEN [s EXCEPT !.status = FAILED,
                 !.error = Some(Msg("Accumulation error: ", 0, outcome))]
  ELSE s

\* KnowledgeAccumulator.__call__: the state returned, whichever guard or
\* call of the try block ended the stage.
AccumulateReturn(s, outcome) == s

\* ------------------------------------------------- DiagnosisAgent (batch)
\* DiagnosisAgent.__init__: not running, scheduler created but not started,
\* start() not called, the process alive.
\* No LLMService operation is being followed.
NoCall == [op |-> "none"]

NoAgent ==
  [running |-> FALSE, scheduler |-> "stopped", start |-> "not_called",
   exited |-> FALSE]

\* A batch that has not been started.  phase: "idle" before the call, "loop"
\* at the head of the for loop, "awaiting" while workflow.run is awaited,
\* "done" after the loop.  invoked counts the calls of workflow.run.
NoBatch ==
  [phase |-> "idle", batch_id |-> 0, i |-> 0, processed |-> 0, failed |-> 0,
   invoked |-> 0]

\* run_diagnosis_batch up to the loop: the batch takes the next batch id and
\* zeroes its tallies.
batch_begin(count) ==
  [phase |-> "loop", batch_id |-> count, i |-> 0, processed |-> 0,
   failed |-> 0, invoked |-> 0]

\* Variant: the thread id is the batch id alone.
thread_id_BatchOnly(bt) == <<bt.batch_id, 0>>

\* thread_id = f"{batch_id}_{i}".  Of the batch id only the batch count is
\* kept: its timestamp has the resolution of a second, within which several
\* batches may start.
thread_id(bt) == <<bt.batch_id, bt.i>>

\* for i in range(batch_size): the next iteration, or the end of the loop.
NextIteration(bt) ==
  [bt EXCEPT !.i = @ + 1,
             !.phase = IF bt.i + 1 < BatchSize THEN "loop" ELSE "done"]

\* Variant: a run that returns no job is tallied as failed and the loop
\* goes on.
batch_result_NoBreak(bt, result) ==
  IF IsNone(result.job_info)
  THEN NextIteration([bt EXCEPT !.failed = @ + 1])
  ELSE IF result.status = COMPLETED
  THEN NextIteration([bt EXCEPT !.processed = @ + 1])
  ELSE NextIteration([bt EXCEPT !.failed = @ + 1])

\* The loop body after workflow.run returned result.
batch_result(bt, result) ==
  IF IsNone(result.job_info)
  THEN [bt EXCEPT !.phase = "done"]
  ELSE IF result.status = COMPLETED
  THEN NextIteration([bt EXCEPT !.processed = @ + 1])
  ELSE NextIteration([bt EXCEPT !.failed = @ + 1])

\* Variant: the exception leaves run_diagnosis_batch.
batch_except_Propagates(bt) == [bt EXCEPT !.phase = "raised"]

\* The loop body's except branch: workflow.run raised.
batch_except(bt) == NextIteration([bt EXCEPT !.failed = @ + 1])

\* ------------------------------------------------------------------ Init
\* No run has started; each record of the queue is pending or was completed
\* by an earlier batch.
Init ==
  /\ pc = [r \in Slots |-> "idle"]
  /\ state = [r \in Slots |-> initial_state]
  /\ trace = [r \in Slots |-> <<>>]
  /\ tx = [r \in Slots |-> 0]
  /\ excStatus \in [RecIds -> {"pending", "completed"}]
  /\ excLock = [x \in RecIds |-> 0]
  /\ excFix = [x \in RecIds |-> None]
  /\ milvusCases = {}
  /\ mysqlCases = {}
  /\ batch_count = 0
  /\ batch = [b \in BatchIds |-> NoBatch]
  /\ agent = NoAgent
  /\ threads = EmptyBag
  /\ llm = NoCall

Entry(node, outcome) == [node |-> node, outcome |-> outcome]

Executed(r, node, outcome) ==
  trace' = [trace EXCEPT ![r] = Append(@, Entry(node, outcome))]

\* DiagnosisWorkflow.run, as the batch runner calls it: the loop of
\* run_diagnosis_batch awaits each run before it starts the next.
Run(r) ==
  /\ pc[r] = "idle"
  /\ \A q \in RunIds : q < r => pc[q] = END
  /\ pc' = [pc EXCEPT ![r] = "collect"]
  /\ state' = [state EXCEPT ![r] = initial_state]
  /\ UNCHANGED <<trace, tx, excStatus, excLock, excFix, milvusCases, mysqlCases>>
  /\ UNCHANGED <<agentVars, llm, threads>>

\* DiagnosisWorkflow.run, called while earlier runs are still in flight
\* (overlapping batches, several engine instances); thread ids are handed
\* out in order.
RunOverlapping(r) ==
  /\ pc[r] = "idle"
  /\ \A q \in ClaimantIds : q < r => pc[q] # "idle"
  /\ pc' = [pc EXCEPT ![r] = "collect"]
  /\ state' = [state EXCEPT ![r] = initial_state]
  /\ UNCHANGED <<trace, tx, excStatus, excLock, excFix, milvusCases, mysqlCases>>
  /\ UNCHANGED <<agentVars, llm, threads>>

\* ------------------------------------ collect / get_pending_exception
\* Variant: a plain read, which also returns rows locked by others.
Claimable_NoSkipLocked == {x \in RecIds : excStatus[x] = "pending"}

\* Rows the locking read may return: pending and not locked by another
\* transaction (FOR UPDATE SKIP LOCKED).
Claimable == {x \in RecIds : excStatus[x] = "pending" /\ excLock[x] = 0}

\* Variant: the claim's UPDATE leaves the status column as it was.
ClaimedStatus_StaysPending == "pending"

\* UPDATE ... SET status = 'in_progress': the value the claim writes.
ClaimedStatus == "in_progress"

\* Variant: ORDER BY created_at DESC.
FirstClaimable_Newest == CHOOSE x \in Claimable : \A y \in Claimable : x >= y

\* ORDER BY created_at ASC LIMIT 1 (records are created in id order).
FirstClaimable == CHOOSE x \in Claimable : \A y \in Claimable : x <= y

\* collect is invoked and the SELECT ... FOR UPDATE SKIP LOCKED executes.
\* No row: get_pending_exception returns None and collect finishes.
\* A row: it is locked by the run's transaction.
ClaimSelect(r) ==
  /\ pc[r] = "collect"
  /\ IF Claimable = {}
     THEN LET s == CollectNone(state[r], Now(r))
          IN /\ state' = [state EXCEPT ![r] = s]
             /\ pc' = [pc EXCEPT ![r] = should_continue_after_collect(s)]
             /\ Executed(r, "collect", "none")
             /\ UNCHANGED <<tx, excLock>>
     ELSE /\ tx' = [tx EXCEPT ![r] = FirstClaimable]
          /\ excLock' = [excLock EXCEPT ![FirstClaimable] = r]
          /\ pc' = [pc EXCEPT ![r] = "claim_update"]
          /\ UNCHANGED <<state, trace>>
  /\ UNCHANGED <<excStatus, excFix, milvusCases, mysqlCases>>
  /\ UNCHANGED <<agentVars, llm, threads>>

\* Variant: the UPDATE is committed as it executes.
ClaimUpdate_Autocommit(r) ==
  /\ pc[r] = "claim_update"
  /\ pc' = [pc EXCEPT ![r] = "claim_commit"]
  /\ excStatus' = [excStatus EXCEPT ![tx[r]] = ClaimedStatus]
  /\ UNCHANGED <<state, trace, tx, excLock, excFix, milvusCases, mysqlCases>>
  /\ UNCHANGED <<agentVars, llm, threads>>

\* UPDATE ... SET status = 'in_progress' inside the open transaction.
ClaimUpdate(r) ==
  /\ pc[r] = "claim_update"
  /\ pc' = [pc EXCEPT ![r] = "claim_commit"]
  /\ UNCHANGED <<state, trace, tx, excStatus, excLock, excFix, milvusCases,
                 mysqlCases>>
  /\ UNCHANGED <<agentVars, llm, threads>>

\* COMMIT: the update becomes visible, the lock is released, the JobInfo is
\* returned and collect finishes.
ClaimCommit(r) ==
  /\ pc[r] = "claim_commit"
  /\ LET s == CollectFound(state[r], JobInfo(tx[r]))
     IN /\ state' = [state EXCEPT ![r] = s]
        /\ pc' = [pc EXCEPT ![r] = should_continue_after_collect(s)]
  /\ excStatus' = [excStatus EXCEPT ![tx[r]] = ClaimedStatus]
  /\ excLock' = [excLock EXCEPT ![tx[r]] = 0]
  /\ tx' = [tx EXCEPT ![r] = 0]
  /\ Executed(r, "collect", "row")
  /\ UNCHANGED <<excFix, milvusCases, mysqlCases>>
  /\ UNCHANGED <<agentVars, llm, threads>>

\* The select, the update or the commit raises: the session is closed, the
\* transaction rolled back, and collect takes its except branch.
ClaimRaise(r) ==
  /\ pc[r] \in {"collect", "claim_update", "claim_commit"}
  /\ Executed(r, "collect", "raise")
  /\ LET s == CollectError(state[r], DBError, Now(r))
     IN /\ state' = [state EXCEPT ![r] = s]
        /\ pc' = [pc EXCEPT ![r] = should_continue_after_collect(s)]
  /\ excLock' = [x \in RecIds |-> IF excLock[x] = r THEN 0 ELSE excLock[x]]
  /\ tx' = [tx EXCEPT ![r] = 0]
  /\ UNCHANGED <<excStatus, excFix, milvusCases, mysqlCases>>
  /\ UNCHANGED <<agentVars, llm, threads>>

\* ---------------------------------------------------------------- retrieve
\* outcome: which call of the try block raised, if any.
RetrieveOutcomes == {"ok", "embedding_raises", "cases_raises", "docs_raises"}

Retrieve(r) ==
  /\ pc[r] = "retrieve"
  /\ IF IsNone(state[r].job_info)
     THEN /\ UNCHANGED state
          /\ Executed(r, "retrieve", "no_job")
     ELSE \E outcome \in RetrieveOutcomes :
            LET job == Val(state[r].job_info)
                s == IF outcome = "ok"
                     THEN RetrieveOk(state[r],
                            search_similar_cases(job.error_type, MaxSimilarCases),
                            search_doc_snippets(MaxDocSnippets))
                     ELSE RetrieveFail(state[r])
            IN /\ state' = [state EXCEPT ![r] = s]
               /\ Executed(r, "retrieve",
                           IF outcome = "ok" THEN "ok" ELSE "raise")
  /\ pc' = [pc EXCEPT ![r] = "diagnose"]
  /\ UNCHANGED <<tx, excStatus, excLock, excFix, milvusCases, mysqlCases>>
  /\ UNCHANGED <<agentVars, llm, threads>>

\* ---------------------------------------------------------------- diagnose
\* Outcomes of the try block: classification (when error_type is unset)
\* raises, generate_diagnosis raises, or both succeed.
Diagnose(r) ==
  /\ pc[r] = "diagnose"
  /\ IF IsNone(state[r].job_info)
     THEN /\ UNCHANGED state
          /\ Executed(r, "diagnose", "no_job")
          /\ pc' = [pc EXCEPT ![r] = should_continue_after_diagnose(state[r])]
     ELSE LET job == Val(state[r].job_info)
              labels == IF job.error_type = ""
                        THEN {classify_error(raw) : raw \in RawLabels}
                        ELSE {job.error_type}
          IN \/ \E label \in labels, c \in Confidences :
                  LET s == DiagnoseOk(state[r],
                             [job EXCEPT !.error_type = label],
                             DiagnosisResult(c))
                  IN /\ state' = [state EXCEPT ![r] = s]
                     /\ Executed(r, "diagnose", "ok")
                     /\ pc' = [pc EXCEPT ![r] =
                                 should_continue_after_diagnose(s)]
             \/ LET s == DiagnoseFail(state[r], LLMError, Now(r))
                IN /\ state' = [state EXCEPT ![r] = s]
                   /\ Executed(r, "diagnose", "raise")
                   /\ pc' = [pc EXCEPT ![r] =
                               should_continue_after_diagnose(s)]
  /\ UNCHANGED <<tx, excStatus, excLock, excFix, milvusCases, mysqlCases>>
  /\ UNCHANGED <<agentVars, llm, threads>>

\* ------------------------------------------------------------------- store
\* Variant: the confidence column is left as it was.
update_diagnosis_result_KeepsConfidence(row, d) ==
  Some([suggested_fix |-> [root_cause |-> d.root_cause,
                           suggested_fix |-> d.suggested_fix],
        diagnosis_confidence |-> IF IsNone(row) THEN None
                                 ELSE Val(row).diagnosis_confidence])

\* The columns update_diagnosis_result writes: suggested_fix, the JSON
\* object of the diagnosis fields other than confidence, and
\* diagnosis_confidence.
update_diagnosis_result(row, d) ==
  Some([suggested_fix |-> [root_cause |-> d.root_cause,
                           suggested_fix |-> d.suggested_fix],
        diagnosis_confidence |-> Some(d.confidence)])

\* The columns mark_exception_failed writes: suggested_fix, the JSON object
\* {"error": ...}; diagnosis_confidence keeps its value.
mark_exception_failed(row, error_message) ==
  Some([suggested_fix |-> [error |-> error_message],
        diagnosis_confidence |-> IF IsNone(row) THEN None
                                 ELSE Val(row).diagnosis_confidence])

Store(r) ==
  /\ pc[r] = "store"
  /\ IF IsNone(state[r].job_info)
     THEN /\ Executed(r, "store", "no_job")
          /\ UNCHANGED <<state, excStatus, excFix>>
     ELSE LET x == Val(state[r].job_info).exception_id
          IN \/ \* the persistence call raises
                /\ Executed(r, "store", "raise")
                /\ state' = [state EXCEPT ![r] =
                               StoreError(state[r], DBError, Now(r))]
                /\ UNCHANGED <<excStatus, excFix>>
             \/ \* update_diagnosis_result(status="completed")
                /\ ~IsNone(state[r].diagnosis_result)
                /\ Executed(r, "store", "ok")
                /\ excStatus' = [excStatus EXCEPT ![x] = "completed"]
                /\ excFix' = [excFix EXCEPT ![x] =
                                update_diagnosis_result(@,
                                  Val(state[r].diagnosis_result))]
                /\ state' = [state EXCEPT ![r] =
                               StoreCompleted(state[r], Now(r))]
             \/ \* mark_exception_failed
                /\ IsNone(state[r].diagnosis_result)
                /\ Executed(r, "store", "ok")
                /\ excStatus' = [excStatus EXCEPT ![x] = "failed"]
                /\ excFix' = [excFix EXCEPT ![x] =
                                mark_exception_failed(@, state[r].error)]
                /\ state' = [state EXCEPT ![r] =
                               StoreFailed(state[r], Now(r))]
  /\ pc' = [pc EXCEPT ![r] = "accumulate"]
  /\ UNCHANGED <<tx, excLock, milvusCases, mysqlCases>>
  /\ UNCHANGED <<agentVars, llm, threads>>

\* -------------------------------------------------------------- accumulate
\* outcome: which call of the try block raised, if any.
AccumulateOutcomes == {"embedding_raises", "milvus_raises", "mysql_raises", "ok"}

Accumulate(r) ==
  /\ pc[r] = "accumulate"
  /\ IF ~ShouldAccumulate(state[r])
     THEN /\ Executed(r, "accumulate", "skip")
          /\ state' = [state EXCEPT ![r] = AccumulateReturn(@, "skip")]
          /\ UNCHANGED <<milvusCases, mysqlCases>>
     ELSE \E outcome \in AccumulateOutcomes :
            LET job == Val(state[r].job_info)
                d == Val(state[r].diagnosis_result)
                case_id == NewCaseId
            IN /\ Executed(r, "accumulate", outcome)
               /\ state' = [state EXCEPT ![r] = AccumulateReturn(@, outcome)]
               /\ milvusCases' =
                    IF outcome \in {"mysql_raises", "ok"}
                    THEN milvusCases \cup {MilvusCase(case_id, job, d)}
                    ELSE milvusCases
               /\ mysqlCases' =
                    IF outcome = "ok"
                    THEN mysqlCases \cup {MySQLCase(case_id, job, d)}
                    ELSE mysqlCases
  /\ pc' = [pc EXCEPT ![r] = END]
  /\ UNCHANGED <<tx, excStatus, excLock, excFix>>
  /\ UNCHANGED <<agentVars, llm, threads>>

\* ------------------------------------------------------------ handle_error
HandleError(r) ==
  /\ pc[r] = "handle_error"
  /\ Executed(r, "handle_error", "ok")
  /\ state' = [state EXCEPT ![r] = handle_error(state[r], Now(r))]
  /\ pc' = [pc EXCEPT ![r] = END]
  /\ UNCHANGED <<tx, excStatus, excLock, excFix, milvusCases, mysqlCases>>
  /\ UNCHANGED <<agentVars, llm, threads>>

Next ==
  \E r \in RunIds :
    \/ Run(r)
    \/ ClaimSelect(r)
    \/ ClaimUpdate(r)
    \/ ClaimCommit(r)
    \/ ClaimRaise(r)
    \/ Retrieve(r)
    \/ Diagnose(r)
    \/ Store(r)
    \/ Accumulate(r)
    \/ HandleError(r)

\* The workflow engine driven by the batch runner.
Spec == Init /\ [][Next]_vars

\* Concurrent claimants: overlapping runs up to the end of collect and, for
\* a failed claim, of handle_error.
ClaimNext ==
  \E r \in ClaimantIds :
    \/ RunOverlapping(r)
    \/ ClaimSelect(r)
    \/ ClaimUpdate(r)
    \/ ClaimCommit(r)
    \/ ClaimRaise(r)
    \/ HandleError(r)

ClaimSpec == Init /\ [][ClaimNext]_vars

\* ------------------------------------------------------- batches of runs
\* The slot holding the run a batch has in flight (its local `result`).
RunSlot(b) == b

Stages ==
  {"collect", "retrieve", "diagnose", "store", "accumulate", "handle_error"}

\* run_diagnosis_batch is called (on startup, then by the scheduler); in
\* this specification a batch starts when the one before it has returned.
BatchStart(b) ==
  /\ batch[b].phase = "idle"
  /\ \A c \in BatchIds : c < b => batch[c].phase = "done"
  /\ batch_count' = batch_count + 1
  /\ batch' = [batch EXCEPT ![b] = batch_begin(batch_count + 1)]
  /\ UNCHANGED <<pc, state, trace, tx, excStatus, excLock, excFix,
                 milvusCases, mysqlCases>>
  /\ UNCHANGED <<agent, llm, threads>>

\* result = await self.workflow.run(thread_id): the run starts.
BatchInvoke(b) ==
  /\ batch[b].phase = "loop"
  /\ pc[RunSlot(b)] = "idle"
  /\ batch' = [batch EXCEPT ![b].phase = "awaiting", ![b].invoked = @ + 1]
  /\ pc' = [pc EXCEPT ![RunSlot(b)] = "collect"]
  /\ state' = [state EXCEPT ![RunSlot(b)] = initial_state]
  /\ trace' = [trace EXCEPT ![RunSlot(b)] = <<>>]
  /\ UNCHANGED <<tx, excStatus, excLock, excFix, milvusCases, mysqlCases,
                 batch_count>>
  /\ threads' = threads (+) SetToBag({thread_id(batch[b])})
  /\ UNCHANGED <<agent, llm>>

\* workflow.run returned the run's final state: break, or tally and go on.
BatchResult(b) ==
  /\ batch[b].phase = "awaiting"
  /\ pc[RunSlot(b)] = END
  /\ batch' = [batch EXCEPT ![b] = batch_result(@, state[RunSlot(b)])]
  /\ pc' = [pc EXCEPT ![RunSlot(b)] = "idle"]
  /\ state' = [state EXCEPT ![RunSlot(b)] = initial_state]
  /\ trace' = [trace EXCEPT ![RunSlot(b)] = <<>>]
  /\ UNCHANGED <<tx, excStatus, excLock, excFix, milvusCases, mysqlCases,
                 batch_count>>
  /\ UNCHANGED <<agent, llm, threads>>

\* workflow.run raised instead of executing the run's next stage (the
\* stages catch their own exceptions; the engine around them may raise).
BatchRaise(b) ==
  /\ batch[b].phase = "awaiting"
  /\ pc[RunSlot(b)] \in Stages
  /\ tx[RunSlot(b)] = 0
  /\ batch' = [batch EXCEPT ![b] = batch_except(@)]
  /\ pc' = [pc EXCEPT ![RunSlot(b)] = "idle"]
  /\ state' = [state EXCEPT ![RunSlot(b)] = initial_state]
  /\ trace' = [trace EXCEPT ![RunSlot(b)] = <<>>]
  /\ UNCHANGED <<tx, excStatus, excLock, excFix, milvusCases, mysqlCases,
                 batch_count>>
  /\ UNCHANGED <<agent, llm, threads>>

BatchNext ==
  \E b \in BatchIds :
    \/ BatchStart(b)
    \/ BatchInvoke(b)
    \/ BatchResult(b)
    \/ BatchRaise(b)
    \/ ClaimSelect(RunSlot(b))
    \/ ClaimUpdate(RunSlot(b))
    \/ ClaimCommit(RunSlot(b))
    \/ ClaimRaise(RunSlot(b))
    \/ Retrieve(RunSlot(b))
    \/ Diagnose(RunSlot(b))
    \/ Store(RunSlot(b))
    \/ Accumulate(RunSlot(b))
    \/ HandleError(RunSlot(b))

\* One agent running its batches one after another.
BatchSpec == Init /\ [][BatchNext]_vars

\* ------------------------------------------------ the agent's life cycle
\* A task cancelled while suspended in a run: the run stops where it is
\* (CancelledError is not an Exception, so no stage catches it).
CancelledPc(p) ==
  IF p \in Stages \cup {"claim_update", "claim_commit"} THEN "cancelled" ELSE p

\* The batch of a cancelled task: a batch still in its loop ends there.
CancelledBatch(bt) ==
  IF bt.phase \in {"loop", "awaiting"}
  THEN [bt EXCEPT !.phase = "cancelled"]
  ELSE bt

\* The tasks in B are cancelled: their batches and runs stop, and the
\* sessions they hold are closed (open claims rolled back).
CancelTasks(B) ==
  /\ batch' = [b \in BatchIds |->
                 IF b \in B THEN CancelledBatch(batch[b]) ELSE batch[b]]
  /\ pc' = [r \in Slots |->
              IF \E b \in B : r = RunSlot(b) /\ batch[b].phase = "awaiting"
              THEN CancelledPc(pc[r]) ELSE pc[r]]
  /\ tx' = [r \in Slots |->
              IF \E b \in B : r = RunSlot(b) /\ batch[b].phase = "awaiting"
              THEN 0 ELSE tx[r]]
  /\ excLock' = [x \in RecIds |->
                   IF excLock[x] # 0 /\
                      \E b \in B : excLock[x] = RunSlot(b) /\
                                     batch[b].phase = "awaiting"
                   THEN 0 ELSE excLock[x]]

\* The batches the scheduler fires; batch 1 is the one start() awaits.
ScheduledBatches == BatchIds \ {1}

\* start(): running is set, the interval job is added, the scheduler is
\* started, and the initial batch is entered.
AgentStart ==
  /\ agent.start = "not_called"
  /\ agent' = [agent EXCEPT !.running = TRUE,
                            !.scheduler = "running",
                            !.start = "initial_batch"]
  /\ batch_count' = batch_count + 1
  /\ batch' = [batch EXCEPT ![1] = batch_begin(batch_count + 1)]
  /\ UNCHANGED <<llm, threads, pc, state, trace, tx, excStatus, excLock, excFix,
                 milvusCases, mysqlCases>>

\* The awaited initial batch returns: start() enters its sleep loop.
InitialBatchReturns ==
  /\ agent.start = "initial_batch"
  /\ batch[1].phase = "done"
  /\ agent' = [agent EXCEPT !.start = "sleeping"]
  /\ UNCHANGED <<llm, threads, pc, state, trace, tx, excStatus, excLock, excFix,
                 milvusCases, mysqlCases, batch_count, batch>>

\* The interval trigger fires and the scheduler runs run_diagnosis_batch as
\* a task of its own (one instance at a time); in this specification the
\* interval is longer than the initial batch.
SchedulerFire(b) ==
  /\ b \in ScheduledBatches
  /\ agent.scheduler = "running"
  /\ agent.start = "sleeping"
  /\ batch[b].phase = "idle"
  /\ \A c \in ScheduledBatches : c < b => batch[c].phase = "done"
  /\ batch_count' = batch_count + 1
  /\ batch' = [batch EXCEPT ![b] = batch_begin(batch_count + 1)]
  /\ UNCHANGED <<llm, threads, pc, state, trace, tx, excStatus, excLock, excFix,
                 milvusCases, mysqlCases, agent>>

\* A signal arrives and the handler's task runs stop(): running is cleared
\* and the scheduler is shut down without waiting.  Whether the shutdown
\* itself cancels the task of a batch the scheduler is running depends on
\* the scheduler's executor; both outcomes are kept.
Stop ==
  /\ agent.start \in {"initial_batch", "sleeping"}
  /\ agent.running
  /\ agent' = [agent EXCEPT !.running = FALSE, !.scheduler = "shutdown"]
  /\ \/ CancelTasks(ScheduledBatches)
     \/ UNCHANGED <<batch, pc, tx, excLock>>
  /\ UNCHANGED <<llm, threads, state, trace, excStatus, excFix, milvusCases, mysqlCases,
                 batch_count>>

\* while self.running: await asyncio.sleep(1) -- the tick that sees running
\* cleared; start() returns.
SleepTick ==
  /\ agent.start = "sleeping"
  /\ ~agent.running
  /\ agent' = [agent EXCEPT !.start = "returned"]
  /\ UNCHANGED <<llm, threads, pc, state, trace, tx, excStatus, excLock, excFix,
                 milvusCases, mysqlCases, batch_count, batch>>

\* main() leaves its try/finally (stop() again, now without effect) and
\* asyncio.run tears the loop down, cancelling every task still pending.
MainExit ==
  /\ agent.start = "returned"
  /\ ~agent.exited
  /\ agent' = [agent EXCEPT !.exited = TRUE]
  /\ CancelTasks(BatchIds)
  /\ UNCHANGED <<llm, threads, state, trace, excStatus, excFix, milvusCases, mysqlCases,
                 batch_count>>

AgentNext ==
  \/ AgentStart
  \/ InitialBatchReturns
  \/ Stop
  \/ SleepTick
  \/ MainExit
  \/ \E b \in BatchIds :
       \/ SchedulerFire(b)
       \/ BatchInvoke(b)
       \/ BatchResult(b)
       \/ BatchRaise(b)
       \/ ClaimSelect(RunSlot(b))
       \/ ClaimUpdate(RunSlot(b))
       \/ ClaimCommit(RunSlot(b))
       \/ ClaimRaise(RunSlot(b))
       \/ Retrieve(RunSlot(b))
       \/ Diagnose(RunSlot(b))
       \/ Store(RunSlot(b))
       \/ Accumulate(RunSlot(b))
       \/ HandleError(RunSlot(b))

\* The process from main() to its exit.
AgentSpec == Init /\ [][AgentNext]_vars

\* ------------------------------------------------ routing rules in isolation
\* States handed to the routing rules and to handle_error: every
\* combination of job, error (None, the empty string, two messages),
\* diagnosis, status, end_time and retry_count, the key retry_count being
\* present or deleted.
RouterErrors ==
  {None, Some(Msg("", 0, "")), Some(Msg("", 0, "Some error")),
   Some(Msg("Collection error: ", 0, DBError))}

RouterStatesNoRetryCount ==
  [job_info : {None} \cup {Some(JobInfo(x)) : x \in RecIds},
   status : {PENDING, IN_PROGRESS, COMPLETED, FAILED},
   retrieved_context : {None},
   diagnosis_result : {None, Some(DiagnosisResult(ConfidenceThreshold))},
   start_time : {0},
   end_time : {None, Some(0)},
   error : RouterErrors]

RouterStates ==
  RouterStatesNoRetryCount \cup
  [job_info : {None} \cup {Some(JobInfo(x)) : x \in RecIds},
   status : {PENDING, IN_PROGRESS, COMPLETED, FAILED},
   retrieved_context : {None},
   diagnosis_result : {None, Some(DiagnosisResult(ConfidenceThreshold))},
   start_time : {0},
   end_time : {None, Some(0)},
   error : RouterErrors,
   retry_count : 0..(RouterRetryCap + 1)]

RouteInit ==
  /\ pc = [r \in Slots |-> IF r = 1 THEN "routing" ELSE "idle"]
  /\ state \in {[r \in Slots |-> IF r = 1 THEN s ELSE initial_state] :
                  s \in RouterStates}
  /\ trace = [r \in Slots |-> <<>>]
  /\ tx = [r \in Slots |-> 0]
  /\ excStatus = [x \in RecIds |-> "pending"]
  /\ excLock = [x \in RecIds |-> 0]
  /\ excFix = [x \in RecIds |-> None]
  /\ milvusCases = {}
  /\ mysqlCases = {}
  /\ batch_count = 0
  /\ batch = [b \in BatchIds |-> NoBatch]
  /\ agent = NoAgent
  /\ threads = EmptyBag
  /\ llm = NoCall

\* The conditional edge after collect evaluates its rule on the state.
ApplyCollectRouting(r) ==
  /\ pc[r] = "routing"
  /\ Executed(r, "should_continue_after_collect",
              should_continue_after_collect(state[r]))
  /\ pc' = [pc EXCEPT ![r] = "routed"]
  /\ UNCHANGED <<state, tx, excStatus, excLock, excFix, milvusCases, mysqlCases>>
  /\ UNCHANGED <<agentVars, llm, threads>>

\* The conditional edge after diagnose evaluates its rule on the state.
ApplyDiagnoseRouting(r) ==
  /\ pc[r] = "routing"
  /\ Executed(r, "should_continue_after_diagnose",
              should_continue_after_diagnose(state[r]))
  /\ pc' = [pc EXCEPT ![r] = "routed"]
  /\ UNCHANGED <<state, tx, excStatus, excLock, excFix, milvusCases, mysqlCases>>
  /\ UNCHANGED <<agentVars, llm, threads>>

\* handle_error is called on the state.
ApplyHandleError(r) ==
  /\ pc[r] = "routing"
  /\ Executed(r, "handle_error", "ok")
  /\ state' = [state EXCEPT ![r] = handle_error(state[r], Now(r))]
  /\ pc' = [pc EXCEPT ![r] = "routed"]
  /\ UNCHANGED <<tx, excStatus, excLock, excFix, milvusCases, mysqlCases>>
  /\ UNCHANGED <<agentVars, llm, threads>>

RouteNext ==
  \E r \in Slots :
    \/ ApplyCollectRouting(r)
    \/ ApplyDiagnoseRouting(r)
    \/ ApplyHandleError(r)

RouteSpec == RouteInit /\ [][RouteNext]_vars

\* ================================================================ properties
Count(r, node) ==
  Cardinality({i \in DOMAIN trace[r] : trace[r][i].node = node})

CountOutcome(r, node, outcome) ==
  Cardinality({i \in DOMAIN trace[r] : trace[r][i] = Entry(node, outcome)})

Has(r, node) == Count(r, node) > 0

HasOutcome(r, node, outcome) == CountOutcome(r, node, outcome) > 0

EmptyContext == Some([similar_cases |-> <<>>, doc_snippets |-> <<>>])

\* C1: in a run whose claim returned no pending record, collect leaves job
\* null, sets status COMPLETED and end_time, leaves error null, and the run
\* is at terminal with collect the only stage ever executed.
C1_EmptyQueueEndsRun ==
  \A r \in Slots :
    HasOutcome(r, "collect", "none") =>
      /\ IsNone(state[r].job_info)
      /\ state[r].status = COMPLETED
      /\ ~IsNone(state[r].end_time)
      /\ IsNone(state[r].error)
      /\ pc[r] = END
      /\ trace[r] = <<Entry("collect", "none")>>

C1_Witness ==
  \E r \in Slots : HasOutcome(r, "collect", "none") /\ pc[r] = END

\* C2: while every diagnose attempt of a run has failed, retry_count equals
\* the number of attempts (so each failure adds exactly 1), the run is back
\* at diagnose after the 1st and 2nd failure and is routed to error-handling
\* after the 3rd and only then: 3 diagnose invocations, 2 re-entries.
C2_RetryCounting ==
  \A r \in Slots :
    LET n == Count(r, "diagnose")
    IN (n >= 1 /\ CountOutcome(r, "diagnose", "raise") = n) =>
         /\ state[r].retry_count = n
         /\ n <= 3
         /\ (n < 3 => pc[r] = "diagnose" /\ ~Has(r, "handle_error"))
         /\ (n = 3 => pc[r] = IF Has(r, "handle_error")
                              THEN END ELSE "handle_error")

C2_Witness ==
  \E r \in Slots :
    /\ CountOutcome(r, "diagnose", "raise") = 3
    /\ Count(r, "diagnose") = 3
    /\ pc[r] = "handle_error"

\* C3: whatever the interleaving of concurrent claims, a record is returned
\* to at most one claimant and is held by at most one open claim; a claimant
\* that was returned a record holds one no other claimant holds, and one
\* that was returned nothing has a null job.
C3_AtMostOneClaimant ==
  /\ \A x \in RecIds :
       /\ Cardinality({r \in Slots :
             /\ HasOutcome(r, "collect", "row")
             /\ state[r].job_info = Some(JobInfo(x))}) <= 1
       /\ Cardinality({r \in Slots : tx[r] = x}) <= 1
  /\ \A r \in Slots :
       /\ HasOutcome(r, "collect", "row") =>
            \E x \in RecIds : state[r].job_info = Some(JobInfo(x))
       /\ HasOutcome(r, "collect", "none") => IsNone(state[r].job_info)

\* A single pending record, locked by one claimant's open claim, while a
\* concurrent claimant was returned nothing.
C3_Witness ==
  \E x \in RecIds, r, q \in Slots :
    /\ r # q
    /\ tx[r] = x
    /\ excStatus[x] = "pending"
    /\ \A y \in RecIds \ {x} : excStatus[y] # "pending"
    /\ HasOutcome(q, "collect", "none")

\* C4: in every state of every run, status is COMPLETED or FAILED exactly
\* when end_time is set.
C4_TerminalIffEndTime ==
  \A r \in Slots :
    (state[r].status \in {COMPLETED, FAILED}) <=> ~IsNone(state[r].end_time)

C4_Witness ==
  \E r \in Slots :
    /\ HasOutcome(r, "store", "ok")
    /\ state[r].status = COMPLETED
    /\ ~IsNone(state[r].end_time)

\* C5: the collect routing rule answers error-handling for every state whose
\* error is non-empty, whether job is null or set; for an empty or null
\* error it answers terminal when job is null and retrieve otherwise.
C5_CollectRouting ==
  \A r \in Slots :
    \A i \in DOMAIN trace[r] :
      trace[r][i].node = "should_continue_after_collect" =>
        LET s == state[r]
            nonEmpty == s.error # None /\ s.error # Some(Msg("", 0, ""))
        IN trace[r][i].outcome =
             IF nonEmpty THEN "handle_error"
             ELSE IF s.job_info = None THEN END
             ELSE "retrieve"

\* The rule was applied to a state with a null job and a non-empty error.
C5_Witness ==
  \E r \in Slots :
    /\ Has(r, "should_continue_after_collect")
    /\ IsNone(state[r].job_info)
    /\ Truthy(state[r].error)

\* C6: once diagnose has failed 3 times in a run, the state has
\* status FAILED, end_time set, retry_count 3 and the error recording the
\* exhaustion after 3 retries; store and accumulate are never executed and
\* the run ends through error-handling.
C6_ExhaustionIsFinal ==
  \A r \in Slots :
    CountOutcome(r, "diagnose", "raise") = 3 =>
      /\ state[r].status = FAILED
      /\ ~IsNone(state[r].end_time)
      /\ state[r].retry_count = 3
      /\ state[r].error = Some(Msg("Diagnosis failed after ", 3, LLMError))
      /\ ~Has(r, "store")
      /\ ~Has(r, "accumulate")
      /\ pc[r] \in {"handle_error", END}

C6_Witness ==
  \E r \in Slots :
    CountOutcome(r, "diagnose", "raise") = 3 /\ pc[r] = END

\* C7: a run that ended after diagnose succeeded (following 0, 1 or 2
\* failures) and store persisted the result has status COMPLETED, error
\* null, retry_count 0 and a diagnosis; store was executed once and
\* error-handling never.
C7_SuccessAfterRetries ==
  \A r \in Slots :
    (/\ pc[r] = END
     /\ HasOutcome(r, "diagnose", "ok")
     /\ HasOutcome(r, "store", "ok")) =>
      /\ CountOutcome(r, "diagnose", "raise") \in {0, 1, 2}
      /\ state[r].status = COMPLETED
      /\ IsNone(state[r].error)
      /\ state[r].retry_count = 0
      /\ ~IsNone(state[r].diagnosis_result)
      /\ Count(r, "store") = 1
      /\ ~Has(r, "handle_error")

C7_Witness ==
  \E r \in Slots :
    /\ pc[r] = END
    /\ CountOutcome(r, "diagnose", "raise") = 2
    /\ HasOutcome(r, "diagnose", "ok")
    /\ HasOutcome(r, "store", "ok")

\* What a step adds to each knowledge store.
WrittenToMilvus == milvusCases' \ milvusCases
WrittenToMySQL == mysqlCases' \ mysqlCases

\* The step is run r's accumulate stage, executed with a diagnosis.
AccumulateStep(r) ==
  /\ pc[r] = "accumulate"
  /\ pc'[r] = END
  /\ ~IsNone(state[r].job_info)
  /\ ~IsNone(state[r].diagnosis_result)

WritesNothing ==
  /\ milvusCases' = milvusCases
  /\ mysqlCases' = mysqlCases

WritesOneCaseToBoth ==
  /\ milvusCases \subseteq milvusCases'
  /\ mysqlCases \subseteq mysqlCases'
  /\ \E id \in {c.case_id : c \in WrittenToMilvus} :
       /\ {c.case_id : c \in WrittenToMilvus} = {id}
       /\ {c.case_id : c \in WrittenToMySQL} = {id}
       /\ Cardinality(WrittenToMilvus) = 1
       /\ Cardinality(WrittenToMySQL) = 1

\* C8 as stated: below the threshold accumulate writes nothing; at or above
\* it, exactly one case goes to each store under one case_id.
C8_AsStated ==
  [][\A r \in Slots :
       AccumulateStep(r) =>
         IF Val(state[r].diagnosis_result).confidence < ConfidenceThreshold
         THEN WritesNothing
         ELSE WritesOneCaseToBoth]_vars

\* C8, amended: below the threshold accumulate writes nothing; at or above
\* it, when the embedding and both inserts succeed, exactly one case goes to
\* each store under one case_id; when the embedding or the vector insert
\* raises nothing is written, and when the relational insert raises the
\* vector store alone holds the one new case.
C8_ThresholdedWrite ==
  [][\A r \in Slots :
       AccumulateStep(r) =>
         LET outcome == trace'[r][Len(trace'[r])].outcome
         IN IF Val(state[r].diagnosis_result).confidence < ConfidenceThreshold
            THEN WritesNothing
            ELSE CASE outcome \in {"embedding_raises", "milvus_raises"} ->
                        WritesNothing
                   [] outcome = "mysql_raises" ->
                        /\ mysqlCases' = mysqlCases
                        /\ milvusCases \subseteq milvusCases'
                        /\ Cardinality(WrittenToMilvus) = 1
                   [] OTHER -> WritesOneCaseToBoth]_vars

\* A run accumulated at the threshold: its case is in both stores under one
\* case_id.
C8_Witness ==
  \E r \in Slots :
    /\ HasOutcome(r, "accumulate", "ok")
    /\ Val(state[r].diagnosis_result).confidence = ConfidenceThreshold
    /\ \E c \in milvusCases, d \in mysqlCases :
         /\ c.case_id = d.case_id
         /\ d.source_exception_id = Val(state[r].job_info).exception_id

\* C9: a retrieve whose embedding or search raised returns its input state
\* with retrieved_context replaced by two empty lists and nothing else
\* changed (error, status, job, retry_count), and the run goes on to
\* diagnose.
C9_RetrieveFailureAbsorbed ==
  [][\A r \in Slots :
       (/\ pc[r] = "retrieve"
        /\ trace'[r] = Append(trace[r], Entry("retrieve", "raise"))) =>
         /\ state'[r] = [state[r] EXCEPT !.retrieved_context = EmptyContext]
         /\ state'[r].error = state[r].error
         /\ state'[r].status = state[r].status
         /\ state'[r].job_info = state[r].job_info
         /\ state'[r].retry_count = state[r].retry_count
         /\ pc'[r] = "diagnose"]_vars

C9_Witness ==
  \E r \in Slots :
    /\ HasOutcome(r, "retrieve", "raise")
    /\ Len(trace[r]) >= 3
    /\ trace[r][3].node = "diagnose"
    /\ state[r].retrieved_context = EmptyContext

\* C10: when the claim operation raised, collect returns job null, status
\* FAILED, a non-empty error and end_time; the run goes to error-handling
\* and then terminal, no other stage being executed.
C10_ClaimFailure ==
  \A r \in Slots :
    HasOutcome(r, "collect", "raise") =>
      /\ IsNone(state[r].job_info)
      /\ state[r].status = FAILED
      /\ Truthy(state[r].error)
      /\ ~IsNone(state[r].end_time)
      /\ \/ /\ pc[r] = "handle_error"
            /\ trace[r] = <<Entry("collect", "raise")>>
         \/ /\ pc[r] = END
            /\ trace[r] = <<Entry("collect", "raise"),
                            Entry("handle_error", "ok")>>

C10_Witness ==
  \E r \in Slots :
    /\ pc[r] = END
    /\ trace[r] = <<Entry("collect", "raise"), Entry("handle_error", "ok")>>

\* C11: in a run whose store stage had its persistence call raise, the state
\* has status FAILED, end_time set and an error that begins with the
\* storage-error marker; store was executed once, and after it neither store
\* nor diagnose is executed again.
C11_StoreFailureTerminal ==
  \A r \in Slots :
    HasOutcome(r, "store", "raise") =>
      /\ state[r].status = FAILED
      /\ ~IsNone(state[r].end_time)
      /\ ~IsNone(state[r].error)
      /\ Val(state[r].error).prefix = "Storage error: "
      /\ Count(r, "store") = 1
      /\ \A i, j \in DOMAIN trace[r] :
           (trace[r][i].node = "store" /\ i < j) =>
             trace[r][j].node \notin {"store", "diagnose"}
      /\ pc[r] \in {"accumulate", END}

\* A run ended after its store stage raised.
C11_Witness ==
  \E r \in Slots :
    /\ HasOutcome(r, "store", "raise")
    /\ pc[r] = END
    /\ trace[r][Len(trace[r])].node = "accumulate"

\* C12: the accumulate stage returns exactly the state it received, whatever
\* its outcome (skipped, both inserts done, embedding or either insert
\* raised): status, error, end_time and every other field are unchanged.
C12_AccumulateReturnsInput ==
  [][\A r \in Slots :
       (pc[r] = "accumulate" /\ pc'[r] # "accumulate") =>
         /\ state'[r] = state[r]
         /\ state'[r].status = state[r].status
         /\ state'[r].error = state[r].error
         /\ state'[r].end_time = state[r].end_time]_vars

\* A run that store completed ended after the relational insert of its
\* accumulate stage raised.
C12_Witness ==
  \E r \in Slots :
    /\ pc[r] = END
    /\ HasOutcome(r, "accumulate", "mysql_raises")
    /\ HasOutcome(r, "store", "ok")
    /\ state[r].status = COMPLETED
    /\ IsNone(state[r].error)

\* C13: in every state of every run retry_count is between 0 and 3, and a
\* state whose retry_count is 3 has status FAILED.
C13_RetryCountBounded ==
  \A r \in Slots :
    /\ state[r].retry_count \in 0..3
    /\ state[r].retry_count = 3 => state[r].status = FAILED

\* The third failed attempt has just returned.
C13_Witness ==
  \E r \in Slots :
    /\ state[r].retry_count = 3
    /\ pc[r] = "handle_error"
    /\ trace[r][Len(trace[r])] = Entry("diagnose", "raise")

\* The runs that were handed a record by their claim.
RunsWithJob == {r \in Slots : ~IsNone(state[r].job_info)}

\* C14: whatever the interleaving of the runs' claims, a record is handed to
\* at most one run over the whole execution: two runs never carry the same
\* record, a record a run carries is no longer pending, a record's persisted
\* status never goes back to pending, and the runs that carry a job never
\* outnumber the records.
C14_ClaimedOnce ==
  /\ [](/\ \A r, q \in RunsWithJob :
             r # q => Val(state[r].job_info).exception_id #
                      Val(state[q].job_info).exception_id
        /\ \A r \in RunsWithJob :
             excStatus[Val(state[r].job_info).exception_id] # "pending"
        /\ Cardinality(RunsWithJob) <= Cardinality(RecIds))
  /\ [][\A x \in RecIds :
          excStatus[x] # "pending" => excStatus'[x] # "pending"]_vars

\* Every record was handed to a run of its own, and one more run, started
\* while claims were open, ended with a null job.
C14_Witness ==
  /\ Cardinality(RunsWithJob) = Cardinality(RecIds)
  /\ \A x \in RecIds : excStatus[x] = "in_progress"
  /\ \E q \in Slots \ RunsWithJob : pc[q] = END /\ Has(q, "collect")

\* C15 as stated: whenever a run that claimed a record is at terminal, the
\* record's persisted status is completed or failed.
C15_AsStated ==
  \A r \in Slots :
    (pc[r] = END /\ ~IsNone(state[r].job_info)) =>
      excStatus[Val(state[r].job_info).exception_id] \in {"completed", "failed"}

\* The step is an execution of handle_error on run r's state.
HandleErrorStep(r) ==
  trace'[r] = Append(trace[r], Entry("handle_error", "ok"))

\* C16 as stated: when handle_error receives a state whose end_time is
\* already set, it leaves end_time unchanged.
C16_AsStated ==
  [][\A r \in Slots :
       (HandleErrorStep(r) /\ ~IsNone(state[r].end_time)) =>
         state'[r].end_time = state[r].end_time]_vars

\* C16, amended: handle_error assigns end_time the time of its own
\* execution whether or not end_time was set; after a collect failure or
\* diagnose exhaustion, which both set end_time, the earlier value is
\* replaced, and the state that was already FAILED is otherwise unchanged.
C16_EndTimeReassigned ==
  [][\A r \in Slots :
       HandleErrorStep(r) =>
         /\ state'[r].end_time = Some(Now(r))
         /\ (~IsNone(state[r].end_time) /\ state[r].status = FAILED) =>
              state'[r] = [state[r] EXCEPT !.end_time = Some(Now(r))]]_vars

\* A run ended through handle_error after diagnose exhaustion, with the
\* end_time of handle_error's own execution (the 6th stage execution).
C16_Witness ==
  \E r \in Slots :
    /\ pc[r] = END
    /\ CountOutcome(r, "diagnose", "raise") = 3
    /\ Has(r, "handle_error")
    /\ state[r].end_time = Some(Len(trace[r]))

\* C17: handle_error returns status FAILED and, apart from status and
\* end_time, exactly the fields of its input (job, error, diagnosis,
\* retrieved_context, retry_count, start_time), also for a null job.
C17_HandleErrorFrame ==
  [][\A r \in Slots :
       HandleErrorStep(r) =>
         /\ state'[r].status = FAILED
         /\ state'[r] = [state[r] EXCEPT !.status = FAILED,
                                         !.end_time = state'[r].end_time]
         /\ state'[r].job_info = state[r].job_info
         /\ state'[r].error = state[r].error
         /\ state'[r].diagnosis_result = state[r].diagnosis_result
         /\ state'[r].retrieved_context = state[r].retrieved_context
         /\ state'[r].start_time = state[r].start_time
         /\ DOMAIN state'[r] = DOMAIN state[r]]_vars

\* handle_error was applied to a state with a null job that carried a
\* diagnosis and a status other than FAILED.
C17_Witness ==
  \E r \in Slots :
    /\ pc[r] = "routed"
    /\ Has(r, "handle_error")
    /\ IsNone(state[r].job_info)
    /\ ~IsNone(state[r].diagnosis_result)
    /\ state[r].status = FAILED
    /\ "retry_count" \in DOMAIN state[r]
    /\ state[r].retry_count = 1

\* C18: the diagnose routing rule answers store for an empty or null error
\* (with or without a diagnosis), diagnose for a non-empty error with
\* retry_count < 3 (a missing retry_count counting as 0), and error-handling
\* for a non-empty error with retry_count >= 3.
C18_DiagnoseRouting ==
  \A r \in Slots :
    \A i \in DOMAIN trace[r] :
      trace[r][i].node = "should_continue_after_diagnose" =>
        LET s == state[r]
            nonEmpty == s.error # None /\ s.error # Some(Msg("", 0, ""))
            missing == "retry_count" \notin DOMAIN s
        IN trace[r][i].outcome =
             IF ~nonEmpty THEN "store"
             ELSE IF missing THEN "diagnose"
             ELSE IF s.retry_count < 3 THEN "diagnose"
             ELSE "handle_error"

\* The rule was applied to a state with a non-empty error and no
\* retry_count key.
C18_Witness ==
  \E r \in Slots :
    /\ Has(r, "should_continue_after_diagnose")
    /\ Truthy(state[r].error)
    /\ "retry_count" \notin DOMAIN state[r]

\* The step is a successful execution of run r's diagnose stage.
DiagnoseOkStep(r) ==
  trace'[r] = Append(trace[r], Entry("diagnose", "ok"))

\* C19: a diagnose attempt that succeeds, whatever error and retry_count it
\* was entered with, returns a state with a diagnosis, error null,
\* retry_count 0, status IN_PROGRESS and a job whose error_type is
\* non-empty, and the run goes on to store.
C19_DiagnoseSuccess ==
  [][\A r \in Slots :
       DiagnoseOkStep(r) =>
         /\ ~IsNone(state'[r].diagnosis_result)
         /\ IsNone(state'[r].error)
         /\ state'[r].retry_count = 0
         /\ state'[r].status = IN_PROGRESS
         /\ ~IsNone(state'[r].job_info)
         /\ Val(state'[r].job_info).error_type # ""
         /\ pc'[r] = "store"]_vars

\* A record that arrived unclassified was diagnosed at the third attempt.
C19_Witness ==
  \E r \in Slots :
    /\ pc[r] = "store"
    /\ CountOutcome(r, "diagnose", "raise") = 2
    /\ trace[r][Len(trace[r])] = Entry("diagnose", "ok")
    /\ RecErrorType(Val(state[r].job_info).exception_id) = ""

\* The step is the return of the run batch b awaits.
ReturnStep(b) ==
  /\ batch[b].phase = "awaiting"
  /\ pc[RunSlot(b)] = END
  /\ pc'[RunSlot(b)] = "idle"

\* C20: a batch calls the workflow engine at most batch_size times, one run
\* at a time (a call is made only from the loop head with no run in flight);
\* a run that returns a null job ends the batch, and an ended batch makes no
\* further call; processed + failed never exceeds the calls made; a run
\* returned with a job adds 1 to processed when its final status is
\* COMPLETED and 1 to failed otherwise.
C20_BatchLoop ==
  /\ [](\A b \in BatchIds :
          /\ batch[b].invoked <= BatchSize
          /\ batch[b].processed + batch[b].failed <= batch[b].invoked
          /\ (pc[RunSlot(b)] # "idle") <=> (batch[b].phase = "awaiting"))
  /\ [][\A b \in BatchIds :
          /\ batch'[b].invoked # batch[b].invoked =>
               /\ batch'[b].invoked = batch[b].invoked + 1
               /\ batch[b].phase = "loop"
               /\ pc[RunSlot(b)] = "idle"
          /\ batch[b].phase = "done" => batch'[b] = batch[b]
          /\ ReturnStep(b) =>
               LET result == state[RunSlot(b)]
               IN IF IsNone(result.job_info)
                  THEN /\ batch'[b].phase = "done"
                       /\ batch'[b].processed = batch[b].processed
                       /\ batch'[b].failed = batch[b].failed
                  ELSE IF result.status = COMPLETED
                  THEN /\ batch'[b].processed = batch[b].processed + 1
                       /\ batch'[b].failed = batch[b].failed
                  ELSE /\ batch'[b].processed = batch[b].processed
                       /\ batch'[b].failed = batch[b].failed + 1]_vars

\* One batch used all batch_size iterations, tallying a completed and a
\* failed run; the next batch stopped at its first run, which returned a
\* null job.
C20_Witness ==
  \E b, c \in BatchIds :
    /\ batch[b].phase = "done"
    /\ batch[b].invoked = BatchSize
    /\ batch[b].processed >= 1
    /\ batch[b].failed >= 1
    /\ batch[c].phase = "done"
    /\ batch[c].invoked = 1
    /\ batch[c].processed + batch[c].failed = 0

\* The step is workflow.run raising in batch b.
RaiseStep(b) ==
  /\ batch[b].phase = "awaiting"
  /\ pc[RunSlot(b)] \in Stages
  /\ pc'[RunSlot(b)] = "idle"

\* C21: when a workflow invocation raises inside a batch, the batch adds 1
\* to failed, leaves processed, and goes on with the next iteration of its
\* loop (or, after the last iteration, returns normally): the exception
\* does not leave run_diagnosis_batch, so the batch never ends in any other
\* way and the batches after it can start.
C21_RaiseIsCounted ==
  /\ [](\A b \in BatchIds :
          batch[b].phase \in {"idle", "loop", "awaiting", "done"})
  /\ [][\A b \in BatchIds :
          RaiseStep(b) =>
            /\ batch'[b].failed = batch[b].failed + 1
            /\ batch'[b].processed = batch[b].processed
            /\ batch'[b].i = batch[b].i + 1
            /\ batch'[b].phase =
                 IF batch[b].i + 1 < BatchSize THEN "loop" ELSE "done"]_vars

\* A batch tallied more invocations than there are records no longer
\* pending, so one of them raised before it claimed anything; the batch
\* also completed a run, and a later batch was started after it.
C21_Witness ==
  \E b, c \in BatchIds :
    /\ b < c
    /\ batch[b].phase = "done"
    /\ batch[b].failed >= 1
    /\ batch[b].processed >= 1
    /\ Cardinality({x \in RecIds : excStatus[x] # "pending"}) <
         batch[b].processed + batch[b].failed
    /\ batch[c].phase = "awaiting"

\* C22 as stated: a run in flight when stop is signalled, in the initial
\* batch or in a batch fired by the scheduler, still executes its remaining
\* stages up to terminal before the process shuts down: no run is ever cut
\* off between its stages.
C22_AsStated ==
  \A r \in Slots : pc[r] # "cancelled"

\* The run of slot r claimed record x: its collect returned the row and its
\* job carries the record's id.
ClaimedBy(x, r) ==
  /\ HasOutcome(r, "collect", "row")
  /\ ~IsNone(state[r].job_info)
  /\ Val(state[r].job_info).exception_id = x

\* The record was written by a run (the records completed before the agent
\* started carry no columns in the model).
MarkedCompleted(x) == excStatus[x] = "completed" /\ ~IsNone(excFix[x])

\* C23: a run that has ended with status COMPLETED and a job left its
\* record persisted as completed with the root cause, the fix and the
\* confidence of the run's diagnosis; and every record a run marked completed
\* was claimed by exactly one run, which executed store with a diagnosis.
C23_CompletedPersisted ==
  /\ \A r \in Slots :
       (pc[r] = END /\ state[r].status = COMPLETED
          /\ ~IsNone(state[r].job_info)) =>
         LET x == Val(state[r].job_info).exception_id
         IN /\ excStatus[x] = "completed"
            /\ ~IsNone(state[r].diagnosis_result)
            /\ ~IsNone(excFix[x])
            /\ Val(excFix[x]).suggested_fix.root_cause =
                 Val(state[r].diagnosis_result).root_cause
            /\ Val(excFix[x]).suggested_fix.suggested_fix =
                 Val(state[r].diagnosis_result).suggested_fix
            /\ Val(excFix[x]).diagnosis_confidence =
                 Some(Val(state[r].diagnosis_result).confidence)
  /\ \A x \in RecIds :
       MarkedCompleted(x) =>
         /\ Cardinality({r \in Slots : ClaimedBy(x, r)}) = 1
         /\ \A r \in Slots :
              ClaimedBy(x, r) =>
                /\ HasOutcome(r, "store", "ok")
                /\ ~IsNone(state[r].diagnosis_result)

\* Two runs have ended COMPLETED with diagnoses of different confidence,
\* each persisted against its own record.
C23_Witness ==
  \E r, q \in Slots :
    /\ pc[r] = END /\ pc[q] = END
    /\ state[r].status = COMPLETED /\ state[q].status = COMPLETED
    /\ ~IsNone(state[r].job_info) /\ ~IsNone(state[q].job_info)
    /\ Val(state[r].diagnosis_result).confidence #
         Val(state[q].diagnosis_result).confidence
    /\ MarkedCompleted(Val(state[r].job_info).exception_id)
    /\ MarkedCompleted(Val(state[q].job_info).exception_id)

\* ------------------------------------- classify_error on returned texts
UpperChar(c) ==
  IF \E i \in 1..26 : LowerLetters[i] = c
  THEN UpperLetters[CHOOSE i \in 1..26 : LowerLetters[i] = c]
  ELSE c

Upper(s) == [i \in 1..Len(s) |-> UpperChar(s[i])]

Capitalized(s) == IF s = <<>> THEN s ELSE <<UpperChar(s[1])>> \o Tail(s)

\* Texts that are no label, however they are cased or padded.
OtherWords ==
  {<<>>,
   <<"i", "n", "v", "a", "l", "i", "d", "_", "t", "y", "p", "e">>,
   <<"o", "o", "m", "s">>,
   <<"o", "o", " ", "m">>,
   <<"n", "/", "a">>,
   <<"n", "e", "t", "\n", "w", "o", "r", "k">>,
   <<"o", "t", "h", "e", "r", ".">>,
   <<"b", "a", "c", "k", "-", "p", "r", "e", "s", "s", "u", "r", "e">>}

\* The words the texts are built from, each with the label it stands for.
ClassifyWords == valid_types \cup {<<w, "other">> : w \in OtherWords}

Paddings == {<<>>, <<" ">>, <<"\n", "\t">>}

Casings == {"as_is", "upper", "capitalized"}

Cased(w, casing) ==
  CASE casing = "upper" -> Upper(w)
    [] casing = "capitalized" -> Capitalized(w)
    [] OTHER -> w

\* The texts the endpoint may return: a word in some casing inside leading
\* and trailing whitespace; expected is the label the word stands for.
ReturnedTexts ==
  {[op |-> "classify",
    raw |-> lead \o Cased(p[1], casing) \o trail,
    expected |-> p[2],
    result |-> None] :
     p \in ClassifyWords, casing \in Casings,
     lead \in Paddings, trail \in Paddings}

ClassifyInit ==
  /\ pc = [r \in Slots |-> "idle"]
  /\ state = [r \in Slots |-> initial_state]
  /\ trace = [r \in Slots |-> <<>>]
  /\ tx = [r \in Slots |-> 0]
  /\ excStatus = [x \in RecIds |-> "pending"]
  /\ excLock = [x \in RecIds |-> 0]
  /\ excFix = [x \in RecIds |-> None]
  /\ milvusCases = {}
  /\ mysqlCases = {}
  /\ batch_count = 0
  /\ batch = [b \in BatchIds |-> NoBatch]
  /\ agent = NoAgent
  /\ threads = EmptyBag
  /\ llm \in ReturnedTexts

\* classify_error returns the label for the text the endpoint returned.
ApplyClassify ==
  /\ llm.op = "classify"
  /\ IsNone(llm.result)
  /\ llm' = [llm EXCEPT !.result = Some(classify_error(llm.raw))]
  /\ UNCHANGED <<pc, state, trace, tx, excStatus, excLock, excFix,
                 milvusCases, mysqlCases, batch_count, batch, agent, threads>>

ClassifyNext == ApplyClassify

ClassifySpec == ClassifyInit /\ [][ClassifyNext]_vars

\* C24: whatever text the endpoint returns, classify_error yields one of
\* the six labels: the label the text spells once trimmed and lower-cased,
\* and other for every text that spells none.
C24_ClosedSet ==
  (llm.op = "classify" /\ ~IsNone(llm.result)) =>
    /\ Val(llm.result) \in {"checkpoint_failure", "backpressure",
                            "deserialization_error", "oom", "network",
                            "other"}
    /\ Val(llm.result) = llm.expected

\* A label returned in capitals inside whitespace was classified as itself.
C24_Witness ==
  /\ llm.op = "classify"
  /\ llm.raw = <<"\n", "\t">> \o
                 <<"B", "A", "C", "K", "P", "R", "E", "S", "S", "U", "R", "E">>
                 \o <<" ">>
  /\ llm.result = Some("backpressure")

\* ---------------------------- generate_diagnosis under its retry policy
\* stop_after_attempt(3)
MaxAttempts == 3

\* How an attempt (one execution of the decorated body) can fail: the
\* endpoint call raises, or the response carries no parsed object and the
\* body raises ValueError.
AttemptFailures == {"api_error", "timeout", "unparseable"}

\* Variant: a parse failure is not retried.
ShouldRetry_NotParseFailure(failure) == failure # "unparseable"

\* The decorator names no retry condition: every exception is retried.
ShouldRetry(failure) == TRUE

\* stop_after_attempt: no attempt follows attempt number MaxAttempts.
ShouldStop(attempt_number) == attempt_number >= MaxAttempts

Attempt(outcome, confidence) ==
  [outcome |-> outcome, confidence |-> confidence]

\* phase: "attempting" while the body runs, "waiting" during the backoff,
\* "returned" / "raised" once the call is over.
RetryInit ==
  /\ pc = [r \in Slots |-> "idle"]
  /\ state = [r \in Slots |-> initial_state]
  /\ trace = [r \in Slots |-> <<>>]
  /\ tx = [r \in Slots |-> 0]
  /\ excStatus = [x \in RecIds |-> "pending"]
  /\ excLock = [x \in RecIds |-> 0]
  /\ excFix = [x \in RecIds |-> None]
  /\ milvusCases = {}
  /\ mysqlCases = {}
  /\ batch_count = 0
  /\ batch = [b \in BatchIds |-> NoBatch]
  /\ agent = NoAgent
  /\ threads = EmptyBag
  /\ llm \in {[op |-> "diagnosis", phase |-> "idle", job |-> JobInfo(x),
               attempts |-> <<>>, result |-> None] : x \in RecIds}

\* generate_diagnosis is called: the first attempt starts.
DiagnosisCall ==
  /\ llm.op = "diagnosis"
  /\ llm.phase = "idle"
  /\ llm' = [llm EXCEPT !.phase = "attempting"]
  /\ UNCHANGED <<pc, state, trace, tx, excStatus, excLock, excFix,
                 milvusCases, mysqlCases, batch_count, batch, agent, threads>>

\* The endpoint answers with a parsed object: the body returns the result.
AttemptSucceeds(c) ==
  /\ llm.op = "diagnosis"
  /\ llm.phase = "attempting"
  /\ llm' = [llm EXCEPT !.attempts = Append(@, Attempt("ok", c)),
                        !.result = Some(DiagnosisResult(c)),
                        !.phase = "returned"]
  /\ UNCHANGED <<pc, state, trace, tx, excStatus, excLock, excFix,
                 milvusCases, mysqlCases, batch_count, batch, agent, threads>>

\* The attempt raises: it is retried after the backoff unless the policy
\* stops, and then the call raises RetryError.
AttemptFails(failure) ==
  /\ llm.op = "diagnosis"
  /\ llm.phase = "attempting"
  /\ llm' = [llm EXCEPT !.attempts = Append(@, Attempt(failure, 0)),
                        !.phase =
                          IF ~ShouldRetry(failure) THEN "raised"
                          ELSE IF ShouldStop(Len(llm.attempts) + 1)
                               THEN "raised"
                               ELSE "waiting"]
  /\ UNCHANGED <<pc, state, trace, tx, excStatus, excLock, excFix,
                 milvusCases, mysqlCases, batch_count, batch, agent, threads>>

\* The exponential backoff has elapsed: the next attempt starts.
BackoffElapsed ==
  /\ llm.op = "diagnosis"
  /\ llm.phase = "waiting"
  /\ llm' = [llm EXCEPT !.phase = "attempting"]
  /\ UNCHANGED <<pc, state, trace, tx, excStatus, excLock, excFix,
                 milvusCases, mysqlCases, batch_count, batch, agent, threads>>

RetryNext ==
  \/ DiagnosisCall
  \/ \E c \in Confidences : AttemptSucceeds(c)
  \/ \E failure \in AttemptFailures : AttemptFails(failure)
  \/ BackoffElapsed

RetrySpec == RetryInit /\ [][RetryNext]_vars

\* C25: one call of generate_diagnosis makes at most 3 attempts; a
\* successful attempt is the last one and the call returns its result; the
\* call raises only when 3 attempts have failed, an unparseable response
\* being one way to fail; while fewer than 3 attempts have failed and none
\* has succeeded the call is still going on.
C25_BoundedAttempts ==
  llm.op = "diagnosis" =>
    LET n == Len(llm.attempts)
        failed == {i \in 1..n : llm.attempts[i].outcome # "ok"}
    IN /\ n <= 3
       /\ \A i \in 1..n : llm.attempts[i].outcome = "ok" => i = n
       /\ llm.phase = "returned" <=>
            (n > 0 /\ llm.attempts[n].outcome = "ok")
       /\ llm.phase = "returned" =>
            llm.result = Some(DiagnosisResult(llm.attempts[n].confidence))
       /\ llm.phase = "raised" <=> Cardinality(failed) = 3
       /\ llm.phase # "returned" => IsNone(llm.result)

\* The call raised after three failed attempts, the first an API error and
\* the last an unparseable response.
C25_Witness ==
  /\ llm.op = "diagnosis"
  /\ llm.phase = "raised"
  /\ Len(llm.attempts) = 3
  /\ llm.attempts[3].outcome = "unparseable"
  /\ llm.attempts[1].outcome = "api_error"

\* --------------------------------------------- _extract_error_pattern
\* pattern[:2000]
PatternCap == 2000

Digits == {"0", "1", "2", "3", "4", "5", "6", "7", "8", "9"}

\* [a-f0-9]
LowerHex == Digits \cup {"a", "b", "c", "d", "e", "f"}

\* [a-fA-F0-9]
HexChars == LowerHex \cup {"A", "B", "C", "D", "E", "F"}

\* \w
WordChars ==
  {LowerLetters[i] : i \in 1..26} \cup {UpperLetters[i] : i \in 1..26}
    \cup Digits \cup {"_"}

\* [\w/.-]
PathChars == WordChars \cup {"/", ".", "-"}

Placeholder(name) == <<"<">> \o name \o <<">">>

NUM == Placeholder(<<"N", "U", "M">>)

UUID == Placeholder(<<"U", "U", "I", "D">>)

TIMESTAMP == Placeholder(<<"T", "I", "M", "E", "S", "T", "A", "M", "P">>)

ADDR == Placeholder(<<"A", "D", "D", "R">>)

PATH == Placeholder(<<"P", "A", "T", "H">>)

\* The concatenation of pieces[lo..hi], by halves.
RECURSIVE Join(_, _, _)
Join(pieces, lo, hi) ==
  IF lo > hi THEN <<>>
  ELSE IF lo = hi THEN pieces[lo]
  ELSE LET mid == (lo + hi) \div 2
       IN Join(pieces, lo, mid) \o Join(pieces, mid + 1, hi)

\* re.sub given its matches: starts are the positions where a match begins,
\* covered the positions inside a match; each match becomes repl and every
\* other character is kept.
ReSub(s, starts, covered, repl) ==
  LET pieces == [i \in 1..Len(s) |->
                   IF i \in starts THEN repl
                   ELSE IF i \in covered THEN <<>>
                   ELSE <<s[i]>>]
  IN Join(pieces, 1, Len(s))

Least(S) == CHOOSE x \in S : \A y \in S : x <= y

\* The matches re.sub takes among the candidates: scanning from the left,
\* the first candidate at or after the end of the previous match.  ends maps
\* each candidate start to the last position of its match.
RECURSIVE SelectMatches(_, _)
SelectMatches(ends, from) ==
  LET rest == {p \in DOMAIN ends : p >= from}
  IN IF rest = {} THEN {}
     ELSE LET p == Least(rest)
          IN {p} \cup SelectMatches(ends, ends[p] + 1)

CoveredBy(ends, starts) ==
  UNION {p..ends[p] : p \in starts}

\* re.sub(r"\d+", "<NUM>", s): a match is a maximal run of digits.
SubNumbers(s) ==
  LET starts == {i \in 1..Len(s) :
                   s[i] \in Digits /\ (i = 1 \/ s[i - 1] \notin Digits)}
      covered == {i \in 1..Len(s) : s[i] \in Digits}
  IN ReSub(s, starts, covered, NUM)

\* A pattern of fixed length, one character class per position.
MatchesAt(s, template, p) ==
  /\ p + Len(template) - 1 <= Len(s)
  /\ \A k \in 1..Len(template) : s[p + k - 1] \in template[k]

SubTemplate(s, template, repl) ==
  LET ends == [p \in {q \in 1..Len(s) : MatchesAt(s, template, q)} |->
                 p + Len(template) - 1]
      starts == SelectMatches(ends, 1)
  IN ReSub(s, starts, CoveredBy(ends, starts), repl)

\* [a-f0-9]{8}-[a-f0-9]{4}-[a-f0-9]{4}-[a-f0-9]{4}-[a-f0-9]{12}
UUIDTemplate ==
  [k \in 1..36 |-> IF k \in {9, 14, 19, 24} THEN {"-"} ELSE LowerHex]

\* \d{4}-\d{2}-\d{2}[T ]\d{2}:\d{2}:\d{2}
TimestampTemplate ==
  [k \in 1..19 |->
     CASE k \in {5, 8} -> {"-"}
       [] k = 11 -> {"T", " "}
       [] k \in {14, 17} -> {":"}
       [] OTHER -> Digits]

\* The last position of the run of characters of class from position i on.
RunEnd(s, i, class) ==
  LET stops == {k \in i..Len(s) : s[k] \notin class}
  IN IF stops = {} THEN Len(s) ELSE Least(stops) - 1

\* re.sub(r"0x[a-fA-F0-9]+", "<ADDR>", s)
SubAddresses(s) ==
  LET ends == [p \in {q \in 1..Len(s) :
                        /\ s[q] = "0"
                        /\ q + 2 <= Len(s)
                        /\ s[q + 1] = "x"
                        /\ s[q + 2] \in HexChars} |->
                 RunEnd(s, p + 2, HexChars)]
      starts == SelectMatches(ends, 1)
  IN ReSub(s, starts, CoveredBy(ends, starts), ADDR)

\* re.sub(r"/[\w/.-]+", "<PATH>", s): "/" is itself in the class, so in
\* each maximal run of class characters the match starts at the first "/"
\* that has a class character after it and takes the rest of the run.
SubPaths(s) ==
  LET slashes == {j \in 1..Len(s) : s[j] = "/"}
      after(i) == \E j \in slashes :
                    j < i /\ \A k \in j..i : s[k] \in PathChars
      starts == {i \in slashes :
                   i < Len(s) /\ s[i + 1] \in PathChars /\ ~after(i)}
      covered == {i \in 1..Len(s) : s[i] \in PathChars /\ after(i)}
  IN ReSub(s, starts, covered, PATH)

\* The five substitutions, in the order of the code.
Substitute(error_message) ==
  SubPaths(
    SubAddresses(
      SubTemplate(
        SubTemplate(SubNumbers(error_message), UUIDTemplate, UUID),
        TimestampTemplate, TIMESTAMP)))

\* Variant: the message is cut to the cap before the substitutions.
extract_error_pattern_CapsMessage(error_message) ==
  Substitute(Take(error_message, PatternCap))

\* KnowledgeAccumulator._extract_error_pattern
extract_error_pattern(error_message) ==
  Take(Substitute(error_message), PatternCap)

\* The pieces the error messages are built from: a number, a blank, a word,
\* a path, an address, a UUID of letters, what makes a second UUID overlap
\* it, a timestamp, a UUID with digits, a placeholder and a lone slash.
Fragments ==
  {<<>>,
   <<"4", "2">>,
   <<" ">>,
   <<"e", "r", "r", "_", "X">>,
   <<"/", "v", "a", "r", "/", "l", "o", "g", ".", "t", "-", "1">>,
   <<"0", "x", "1", "F", "a">>,
   <<"a", "b", "c", "d", "e", "f", "a", "b", "-", "a", "b", "c", "d", "-",
     "a", "b", "c", "d", "-", "a", "b", "c", "d", "-",
     "a", "b", "c", "d", "e", "f", "a", "b", "c", "d", "e", "f">>,
   <<"-", "a", "b", "c", "d", "-", "a", "b", "c", "d", "-",
     "a", "b", "c", "d", "-",
     "a", "b", "c", "d", "e", "f", "a", "b", "c", "d", "e", "f">>,
   <<"2", "0", "2", "4", "-", "0", "1", "-", "3", "1", "T",
     "1", "0", ":", "0", "0", ":", "5", "9">>,
   <<"1", "2", "3", "e", "4", "5", "6", "7", "-", "e", "8", "9", "b", "-",
     "1", "2", "d", "3", "-", "a", "4", "5", "6", "-",
     "4", "2", "6", "6", "1", "4", "1", "7", "4", "0", "0", "0">>,
   <<"<", "N", "U", "M", ">">>,
   <<"/">>}

\* frag repeated n times.
Repeat(frag, n) ==
  [i \in 1..(n * Len(frag)) |-> frag[((i - 1) % Len(frag)) + 1]]

\* Messages whose pattern is longer than the cap.
LongMessages ==
  {Repeat(<<"1", " ">>, 450),
   Repeat(<<"/", "a", ".", "b", " ">>, 300),
   Repeat(<<"x", "7", "/", "p", "/", " ", "/", " ">>, 200)}

ErrorMessages ==
  {a \o b \o c : a \in Fragments, b \in Fragments, c \in Fragments}
    \cup LongMessages

ExtractInit ==
  /\ pc = [r \in Slots |-> "idle"]
  /\ state = [r \in Slots |-> initial_state]
  /\ trace = [r \in Slots |-> <<>>]
  /\ tx = [r \in Slots |-> 0]
  /\ excStatus = [x \in RecIds |-> "pending"]
  /\ excLock = [x \in RecIds |-> 0]
  /\ excFix = [x \in RecIds |-> None]
  /\ milvusCases = {}
  /\ mysqlCases = {}
  /\ batch_count = 0
  /\ batch = [b \in BatchIds |-> NoBatch]
  /\ agent = NoAgent
  /\ threads = EmptyBag
  /\ llm \in {[op |-> "extract", message |-> m, once |-> None,
               twice |-> None] : m \in ErrorMessages}

\* The pattern of the message.
ExtractOnce ==
  /\ llm.op = "extract"
  /\ IsNone(llm.once)
  /\ llm' = [llm EXCEPT !.once = Some(extract_error_pattern(llm.message))]
  /\ UNCHANGED <<pc, state, trace, tx, excStatus, excLock, excFix,
                 milvusCases, mysqlCases, batch_count, batch, agent, threads>>

\* The pattern of the pattern.
ExtractAgain ==
  /\ llm.op = "extract"
  /\ ~IsNone(llm.once)
  /\ IsNone(llm.twice)
  /\ llm' = [llm EXCEPT !.twice = Some(extract_error_pattern(Val(llm.once)))]
  /\ UNCHANGED <<pc, state, trace, tx, excStatus, excLock, excFix,
                 milvusCases, mysqlCases, batch_count, batch, agent, threads>>

ExtractNext == ExtractOnce \/ ExtractAgain

ExtractSpec == ExtractInit /\ [][ExtractNext]_vars

\* C26: the pattern of a pattern is that pattern: applying
\* _extract_error_pattern to its own output changes nothing.
C26_Idempotent ==
  (llm.op = "extract" /\ ~IsNone(llm.twice)) => llm.twice = llm.once

\* A message whose pattern was cut at the cap, inside a placeholder, and
\* extracted again.
C26_Witness ==
  /\ llm.op = "extract"
  /\ ~IsNone(llm.twice)
  /\ Len(Val(llm.once)) = PatternCap
  /\ Val(llm.once)[PatternCap] # ">"
  /\ Val(llm.once)[PatternCap] # " "
  /\ Val(llm.once) # Take(llm.message, PatternCap)

\* The engine under the scheduling of the event loop: a stage whose
\* external call has come back (every call returns or raises within its
\* timeout) is resumed.
OneRunInit ==
  /\ pc = [r \in Slots |-> "idle"]
  /\ state = [r \in Slots |-> initial_state]
  /\ trace = [r \in Slots |-> <<>>]
  /\ tx = [r \in Slots |-> 0]
  /\ excStatus \in [RecIds -> {"pending", "in_progress", "completed"}]
  /\ excLock = [x \in RecIds |-> 0]
  /\ excFix = [x \in RecIds |-> None]
  /\ milvusCases = {}
  /\ mysqlCases = {}
  /\ batch_count = 0
  /\ batch = [b \in BatchIds |-> NoBatch]
  /\ agent = NoAgent
  /\ threads = EmptyBag
  /\ llm = NoCall

\* One call of DiagnosisWorkflow.run, against any queue.
OneRunNext ==
  \/ Run(1)
  \/ ClaimSelect(1)
  \/ ClaimUpdate(1)
  \/ ClaimCommit(1)
  \/ ClaimRaise(1)
  \/ Retrieve(1)
  \/ Diagnose(1)
  \/ Store(1)
  \/ Accumulate(1)
  \/ HandleError(1)

FairSpec == OneRunInit /\ [][OneRunNext]_vars /\ WF_vars(OneRunNext)

\* The stage executions of run r so far.
StageExecutions(r) == Len(trace[r])

\* C27: a run executes collect, retrieve, store, accumulate and
\* handle_error at most once each and diagnose at most 3 times, hence at
\* most 7 stages in all, and every run that has started reaches END,
\* whichever of its external calls succeed or fail.
C27_RunTerminates ==
  /\ [](\A r \in Slots :
          /\ \A node \in {"collect", "retrieve", "store", "accumulate",
                          "handle_error"} : Count(r, node) <= 1
          /\ Count(r, "diagnose") <= 3
          /\ StageExecutions(r) <= 7)
  /\ \A r \in Slots : (pc[r] = "collect") ~> (pc[r] = END)

\* A run has ended after seven stage executions, three of them diagnose.
C27_Witness ==
  \E r \in Slots :
    /\ pc[r] = END
    /\ StageExecutions(r) = 7
    /\ Count(r, "diagnose") = 3
    /\ Has(r, "accumulate")

\* C28: the state a run returns has status COMPLETED or FAILED, and it is
\* FAILED exactly when its error is non-null.
C28_FinalStatus ==
  \A r \in Slots :
    pc[r] = END =>
      /\ state[r].status \in {COMPLETED, FAILED}
      /\ state[r].status = FAILED <=> ~IsNone(state[r].error)

\* One run has ended FAILED after a storage error and another COMPLETED
\* with a job.
C28_Witness ==
  \E r, q \in Slots :
    /\ pc[r] = END /\ pc[q] = END
    /\ HasOutcome(r, "store", "raise")
    /\ state[r].status = FAILED
    /\ state[q].status = COMPLETED
    /\ ~IsNone(state[q].job_info)

\* C29: store is entered only with a diagnosis; a run that has ended holds
\* a diagnosis exactly when it executed store; no record is ever marked
\* failed (the no-diagnosis branch of store is not taken); and no run
\* executes both store and handle_error.
C29_StoreOnlyWithDiagnosis ==
  /\ \A r \in Slots :
       /\ pc[r] = "store" => ~IsNone(state[r].diagnosis_result)
       /\ Has(r, "store") => ~IsNone(state[r].diagnosis_result)
       /\ pc[r] = END =>
            (~IsNone(state[r].diagnosis_result) <=> Has(r, "store"))
       /\ ~(Has(r, "store") /\ Has(r, "handle_error"))
  /\ \A x \in RecIds : excStatus[x] # "failed"

\* One run has ended through store with its diagnosis and another through
\* handle_error, after three failed diagnoses, with none.
C29_Witness ==
  \E r, q \in Slots :
    /\ pc[r] = END /\ pc[q] = END
    /\ Has(r, "store")
    /\ ~IsNone(state[r].diagnosis_result)
    /\ Has(q, "handle_error")
    /\ Count(q, "diagnose") = 3
    /\ IsNone(state[q].diagnosis_result)

\* C30: retrieve, diagnose, store and accumulate are entered and executed
\* only with a job (none of them ever takes its no-job return), and once a
\* run holds a job its exception_id, job_id and error_message stay what
\* collect set them to.
C30_JobKept ==
  /\ [](\A r \in Slots :
          /\ pc[r] \in {"retrieve", "diagnose", "store", "accumulate"} =>
               ~IsNone(state[r].job_info)
          /\ \A node \in {"retrieve", "diagnose", "store", "accumulate"} :
               /\ ~HasOutcome(r, node, "no_job")
               /\ Has(r, node) => ~IsNone(state[r].job_info))
  /\ [][\A r \in Slots :
          ~IsNone(state[r].job_info) =>
            /\ ~IsNone(state'[r].job_info)
            /\ Val(state'[r].job_info).exception_id =
                 Val(state[r].job_info).exception_id
            /\ Val(state'[r].job_info).job_id = Val(state[r].job_info).job_id
            /\ Val(state'[r].job_info).error_message =
                 Val(state[r].job_info).error_message]_vars

\* A run whose record arrived unclassified has ended after all four stages,
\* its job now carrying a label and still the record's id and message.
C30_Witness ==
  \E r \in Slots :
    /\ pc[r] = END
    /\ \A node \in {"retrieve", "diagnose", "store", "accumulate"} :
         Has(r, node)
    /\ ~IsNone(state[r].job_info)
    /\ RecErrorType(Val(state[r].job_info).exception_id) = ""
    /\ Val(state[r].job_info).error_type # ""
    /\ Val(state[r].job_info).error_message =
         RecErrorMessage(Val(state[r].job_info).exception_id)

\* C31 as stated: only a run whose status is COMPLETED writes a knowledge
\* case; the accumulate stage of a run whose store failed (status FAILED)
\* writes nothing to either store.
C31_AsStated ==
  [][\A r \in Slots :
       (AccumulateStep(r) /\ state[r].status # COMPLETED) =>
         WritesNothing]_vars

\* C32 as stated: whenever no run is in flight, the vector collection and
\* the knowledge_cases table hold the same case_ids, also after an
\* accumulate whose embedding or whose insert into either store failed.
C32_AsStated ==
  (\A r \in Slots : pc[r] \in {"idle", END}) =>
    {c.case_id : c \in milvusCases} = {c.case_id : c \in mysqlCases}

\* The runs whose accumulate inserted into the vector collection, and into
\* the table.
RunsInsertedMilvus ==
  {r \in Slots : HasOutcome(r, "accumulate", "ok")
                   \/ HasOutcome(r, "accumulate", "mysql_raises")}

RunsInsertedMySQL == {r \in Slots : HasOutcome(r, "accumulate", "ok")}

\* C33: the knowledge stores only grow, by one case per inserting run: each
\* store holds as many cases, under distinct case_ids, as runs have inserted
\* into it; every row of the table is an auto, unverified case whose
\* source_exception_id is the record claimed by the run that wrote it and
\* whose content is still that run's diagnosis; and no record is the source
\* of two cases.
C33_AppendOnly ==
  /\ Cardinality(milvusCases) = Cardinality(RunsInsertedMilvus)
  /\ Cardinality(mysqlCases) = Cardinality(RunsInsertedMySQL)
  /\ Cardinality({c.case_id : c \in milvusCases}) = Cardinality(milvusCases)
  /\ Cardinality({c.case_id : c \in mysqlCases}) = Cardinality(mysqlCases)
  /\ \A c \in mysqlCases :
       /\ c.source_type = "auto"
       /\ c.verified = FALSE
       /\ \E r \in RunsInsertedMySQL :
            /\ ClaimedBy(c.source_exception_id, r)
            /\ c.root_cause = Val(state[r].diagnosis_result).root_cause
            /\ c.solution = Val(state[r].diagnosis_result).suggested_fix
            /\ c.error_type = Val(state[r].job_info).error_type
       /\ \A d \in mysqlCases :
            d.source_exception_id = c.source_exception_id => d = c
  /\ \A c \in milvusCases :
       \E r \in RunsInsertedMilvus :
         /\ c.root_cause = Val(state[r].diagnosis_result).root_cause
         /\ c.solution = Val(state[r].diagnosis_result).suggested_fix
         /\ c.error_type = Val(state[r].job_info).error_type

\* Two runs have each added a case to both stores.
C33_Witness ==
  /\ Cardinality(RunsInsertedMySQL) = 2
  /\ Cardinality(mysqlCases) = 2
  /\ Cardinality(milvusCases) = 2
  /\ \A r \in RunsInsertedMySQL : pc[r] = END

\* Run r has just executed diagnose and been routed.
AfterDiagnose(r) ==
  /\ Len(trace[r]) > 0
  /\ trace[r][Len(trace[r])].node = "diagnose"

\* C34: after a diagnose invocation the run is at handle_error exactly when
\* the stage set status FAILED; diagnose is never entered with status FAILED
\* or with end_time set.
C34_CapsAgree ==
  \A r \in Slots :
    /\ AfterDiagnose(r) =>
         (pc[r] = "handle_error" <=> state[r].status = FAILED)
    /\ pc[r] = "diagnose" =>
         /\ state[r].status # FAILED
         /\ IsNone(state[r].end_time)

\* A run is at handle_error after its third failed diagnose.
C34_Witness ==
  \E r \in Slots :
    /\ AfterDiagnose(r)
    /\ pc[r] = "handle_error"
    /\ state[r].status = FAILED
    /\ CountOutcome(r, "diagnose", "raise") = 3

\* ------------------------------------------ the diagnoser's model calls
\* LLMDiagnoser.__call__ followed call by call, over the attempts of one
\* run.  llm.job_info is the local job_info once the classification branch
\* is behind (None before it and after the node has returned); llm.calls
\* and llm.returned count the calls of classify_error the run has made and
\* the labels they returned.
DiagnoserInit ==
  /\ pc = [r \in Slots |-> IF r = 1 THEN "diagnose" ELSE "idle"]
  /\ tx = [r \in Slots |-> 0]
  /\ excLock = [x \in RecIds |-> 0]
  /\ excFix = [x \in RecIds |-> None]
  /\ milvusCases = {}
  /\ mysqlCases = {}
  /\ batch_count = 0
  /\ batch = [b \in BatchIds |-> NoBatch]
  /\ agent = NoAgent
  /\ threads = EmptyBag
  /\ llm = [op |-> "diagnoser", job_info |-> None, calls |-> 0,
            returned |-> 0]
  /\ \E x \in RecIds, outcome \in RetrieveOutcomes :
       LET collected == CollectFound(initial_state, JobInfo(x))
           retrieved == IF outcome = "ok"
                        THEN RetrieveOk(collected,
                               search_similar_cases(RecErrorType(x),
                                                    MaxSimilarCases),
                               search_doc_snippets(MaxDocSnippets))
                        ELSE RetrieveFail(collected)
       IN /\ state = [r \in Slots |->
                        IF r = 1 THEN retrieved ELSE initial_state]
          /\ trace = [r \in Slots |->
                        IF r = 1
                        THEN <<Entry("collect", "row"),
                               Entry("retrieve",
                                     IF outcome = "ok" THEN "ok" ELSE "raise")>>
                        ELSE <<>>]
          /\ excStatus = [y \in RecIds |->
                            IF y = x THEN "in_progress" ELSE "pending"]

\* The run is in the diagnoser, before the classification branch.
AtClassification ==
  /\ llm.op = "diagnoser"
  /\ pc[1] = "diagnose"
  /\ IsNone(llm.job_info)

\* The job has no error_type: classify_error is called and returns a label,
\* which goes into the local job_info.
ClassifyErrorReturns(raw) ==
  /\ AtClassification
  /\ Val(state[1].job_info).error_type = ""
  /\ llm' = [llm EXCEPT !.job_info =
                          Some([Val(state[1].job_info) EXCEPT
                                  !.error_type = classify_error(raw)]),
                        !.calls = @ + 1,
                        !.returned = @ + 1]
  /\ UNCHANGED <<pc, state, trace, tx, excStatus, excLock, excFix,
                 milvusCases, mysqlCases, batch_count, batch, agent, threads>>

\* The diagnoser's except branch: the node returns the state it was given
\* with the failure recorded, and the router decides.
DiagnoserFails ==
  LET s == DiagnoseFail(state[1], LLMError, Now(1))
  IN /\ state' = [state EXCEPT ![1] = s]
     /\ Executed(1, "diagnose", "raise")
     /\ pc' = [pc EXCEPT ![1] = should_continue_after_diagnose(s)]

\* The job has no error_type: classify_error is called and raises.
ClassifyErrorRaises ==
  /\ AtClassification
  /\ Val(state[1].job_info).error_type = ""
  /\ DiagnoserFails
  /\ llm' = [llm EXCEPT !.calls = @ + 1]
  /\ UNCHANGED <<tx, excStatus, excLock, excFix, milvusCases, mysqlCases,
                 batch_count, batch, agent, threads>>

\* The job generate_diagnosis is called with: the local job_info, which is
\* the state's job when the classification branch was not taken.
AtGeneration ==
  /\ llm.op = "diagnoser"
  /\ pc[1] = "diagnose"
  /\ \/ ~IsNone(llm.job_info)
     \/ Val(state[1].job_info).error_type # ""

LocalJobInfo ==
  IF IsNone(llm.job_info) THEN Val(state[1].job_info) ELSE Val(llm.job_info)

\* generate_diagnosis returns: the node returns the state with the local
\* job_info and the diagnosis.
GenerateDiagnosisReturns(c) ==
  /\ AtGeneration
  /\ LET s == DiagnoseOk(state[1], LocalJobInfo, DiagnosisResult(c))
     IN /\ state' = [state EXCEPT ![1] = s]
        /\ Executed(1, "diagnose", "ok")
        /\ pc' = [pc EXCEPT ![1] = should_continue_after_diagnose(s)]
  /\ llm' = [llm EXCEPT !.job_info = None]
  /\ UNCHANGED <<tx, excStatus, excLock, excFix, milvusCases, mysqlCases,
                 batch_count, batch, agent, threads>>

\* generate_diagnosis raises: the local job_info goes with the frame.
GenerateDiagnosisRaises ==
  /\ AtGeneration
  /\ DiagnoserFails
  /\ llm' = [llm EXCEPT !.job_info = None]
  /\ UNCHANGED <<tx, excStatus, excLock, excFix, milvusCases, mysqlCases,
                 batch_count, batch, agent, threads>>

DiagnoserNext ==
  \/ \E raw \in RawLabels : ClassifyErrorReturns(raw)
  \/ ClassifyErrorRaises
  \/ \E c \in Confidences : GenerateDiagnosisReturns(c)
  \/ GenerateDiagnosisRaises

DiagnoserSpec == DiagnoserInit /\ [][DiagnoserNext]_vars

\* C35 as stated: a run calls classify_error at most once, never for a
\* record that arrived with an error_type, and a label a call has returned
\* is in the job of the state once the attempt that obtained it is over.
C35_AsStated ==
  llm.op = "diagnoser" =>
    /\ llm.calls <= 1
    /\ RecErrorType(Val(state[1].job_info).exception_id) # "" =>
         llm.calls = 0
    /\ (llm.returned > 0 /\ IsNone(llm.job_info)) =>
         Val(state[1].job_info).error_type # ""

\* C36 as stated: a batch stops before batch_size iterations only when the
\* run that just returned found no pending record in collect; a returned run
\* whose collect failed (status FAILED, job null) adds 1 to the batch's
\* failed tally and the loop goes on to its next iteration.
C36_AsStated ==
  [][\A b \in BatchIds :
       ReturnStep(b) =>
         LET result == state[RunSlot(b)]
         IN /\ (batch'[b].phase = "done" /\ batch[b].i + 1 < BatchSize) =>
                 HasOutcome(RunSlot(b), "collect", "none")
            /\ (result.status = FAILED /\ IsNone(result.job_info)) =>
                 /\ batch'[b].failed = batch[b].failed + 1
                 /\ batch'[b].i = batch[b].i + 1]_vars

\* ------------------------------------------------- overlapping batches
\* The interval trigger fires whenever the interval has elapsed, also while
\* start() still awaits the initial batch: the scheduler runs
\* run_diagnosis_batch as a task of its own beside it (of the scheduled job
\* itself one instance runs at a time).
SchedulerFireAnyTime(b) ==
  /\ b \in ScheduledBatches
  /\ agent.scheduler = "running"
  /\ agent.start \in {"initial_batch", "sleeping"}
  /\ batch[b].phase = "idle"
  /\ \A c \in ScheduledBatches : c < b => batch[c].phase = "done"
  /\ batch_count' = batch_count + 1
  /\ batch' = [batch EXCEPT ![b] = batch_begin(batch_count + 1)]
  /\ UNCHANGED <<llm, threads, pc, state, trace, tx, excStatus, excLock,
                 excFix, milvusCases, mysqlCases, agent>>

OverlapNext ==
  \/ AgentStart
  \/ InitialBatchReturns
  \/ \E b \in BatchIds :
       \/ SchedulerFireAnyTime(b)
       \/ BatchInvoke(b)
       \/ BatchResult(b)
       \/ BatchRaise(b)
       \/ ClaimSelect(RunSlot(b))
       \/ ClaimUpdate(RunSlot(b))
       \/ ClaimCommit(RunSlot(b))
       \/ ClaimRaise(RunSlot(b))
       \/ Retrieve(RunSlot(b))
       \/ Diagnose(RunSlot(b))
       \/ Store(RunSlot(b))
       \/ Accumulate(RunSlot(b))
       \/ HandleError(RunSlot(b))

\* A queue that is drained but for one record at most: of the runs in
\* flight at the same time one has a record to work on.
OverlapInit ==
  /\ Init
  /\ Cardinality({x \in RecIds : excStatus[x] = "pending"}) <= 1

\* The running agent with any interval between its scheduled batches.
OverlapSpec == OverlapInit /\ [][OverlapNext]_vars

\* C37: no thread id is passed to workflow.run twice by one agent, and the
\* runs in flight at the same time are under different thread ids.
C37_ThreadIdsDiffer ==
  /\ \A id \in BagToSet(threads) : CopiesIn(id, threads) = 1
  /\ \A b, c \in BatchIds :
       (b # c /\ batch[b].phase = "awaiting" /\ batch[c].phase = "awaiting")
         => thread_id(batch[b]) # thread_id(batch[c])

\* A scheduled batch has a run in flight while the initial batch has one,
\* each batch being at its second run.
C37_Witness ==
  \E b \in ScheduledBatches :
    /\ agent.start = "initial_batch"
    /\ batch[1].phase = "awaiting"
    /\ batch[b].phase = "awaiting"
    /\ batch[1].invoked = 2
    /\ batch[b].invoked = 2
    /\ BagCardinality(threads) = 4

\* The step is the claim of run r raising, at the select, the update or the
\* commit.
ClaimRaiseStep(r) ==
  /\ pc[r] \in {"collect", "claim_update", "claim_commit"}
  /\ trace'[r] = Append(trace[r], Entry("collect", "raise"))

\* C38: the record an open claim has selected is pending, under the claim's
\* lock; when a claim raises, at any of its steps, no record's persisted
\* status changes, and the record it had selected is pending and unlocked,
\* so that the next locking read may return it.
C38_RaisedClaimLeavesPending ==
  /\ [](\A r \in Slots :
          tx[r] # 0 => excStatus[tx[r]] = "pending" /\ excLock[tx[r]] = r)
  /\ [][\A r \in Slots :
          ClaimRaiseStep(r) =>
            /\ excStatus' = excStatus
            /\ tx'[r] = 0
            /\ tx[r] # 0 => /\ excStatus'[tx[r]] = "pending"
                            /\ excLock'[tx[r]] = 0
                            /\ tx[r] \in Claimable']_vars

\* The only pending record was selected by a claim that then raised: a
\* second claimant, who read while the record was locked, was returned
\* nothing, the first claimant's claim raised, no other claimant has
\* started, and the record is pending and unlocked.
C38_Witness ==
  \E x \in RecIds, r, q \in Slots :
    /\ r # q
    /\ \A y \in RecIds \ {x} : excStatus[y] = "completed"
    /\ excStatus[x] = "pending"
    /\ excLock[x] = 0
    /\ HasOutcome(r, "collect", "raise")
    /\ HasOutcome(q, "collect", "none")
    /\ \A p \in Slots \ {r, q} : pc[p] = "idle"

\* The step is the locking read of run r's claim returning a row.
ClaimSelectStep(r) == pc[r] = "collect" /\ pc'[r] = "claim_update"

\* The step is the commit of run r's claim.
ClaimCommitStep(r) ==
  /\ pc[r] = "claim_commit"
  /\ trace'[r] = Append(trace[r], Entry("collect", "row"))

\* C39: the locking read of a claim returns the earliest-created record
\* among those pending and not locked by another claimant, and nothing only
\* when there is none; the commit marks that record in_progress, hands it to
\* the run and changes no other record.  Hence a pending record older than a
\* claimed one is held by an open claim, or was released by a claim that
\* raised: claims made one after the other take the records in order of
\* creation.
C39_EarliestFirst ==
  /\ [][\A r \in Slots :
          /\ ClaimSelectStep(r) =>
               /\ tx'[r] \in Claimable
               /\ \A y \in Claimable : tx'[r] <= y
               /\ excStatus' = excStatus
          /\ (pc[r] = "collect" /\ pc'[r] \notin {"collect", "claim_update"}
                /\ HasOutcome(r, "collect", "none")') => Claimable = {}
          /\ ClaimCommitStep(r) =>
               /\ excStatus' = [excStatus EXCEPT ![tx[r]] = "in_progress"]
               /\ excStatus[tx[r]] = "pending"
               /\ state'[r].job_info = Some(JobInfo(tx[r]))
               /\ excFix' = excFix]_vars
  /\ [](\A x, y \in RecIds :
          (y < x /\ excStatus[x] = "in_progress" /\ excStatus[y] = "pending")
            => \/ excLock[y] # 0
               \/ \E q \in Slots : HasOutcome(q, "collect", "raise"))

\* A claimant was handed the second record while the first, older one was
\* still pending under the lock of another claimant's open claim; no claim
\* has raised.
C39_Witness ==
  \E r, q \in Slots :
    /\ r # q
    /\ ClaimedBy(2, r)
    /\ excStatus[2] = "in_progress"
    /\ excStatus[1] = "pending"
    /\ tx[q] = 1
    /\ \A p \in Slots : ~HasOutcome(p, "collect", "raise")

\* sub occurs in s.
Occurs(sub, s) ==
  \E p \in 1..Len(s) :
    /\ p + Len(sub) - 1 <= Len(s)
    /\ \A k \in 1..Len(sub) : s[p + k - 1] = sub[k]

\* s has a match of \d{4}-\d{2}-\d{2}[T ]\d{2}:\d{2}:\d{2}.
HasTimestamp(s) == \E p \in 1..Len(s) : MatchesAt(s, TimestampTemplate, p)

\* s has a match of 0x[a-fA-F0-9]+.
HasAddress(s) ==
  \E p \in 1..Len(s) :
    /\ p + 2 <= Len(s)
    /\ s[p] = "0"
    /\ s[p + 1] = "x"
    /\ s[p + 2] \in HexChars

\* s has a match of the UUID expression.
HasUUID(s) == \E p \in 1..Len(s) : MatchesAt(s, UUIDTemplate, p)

\* C40 as stated, for the patterns the cap does not cut: the pattern of a
\* message with an ISO timestamp has the timestamp placeholder, that of a
\* message with a 0x address the address placeholder, and that of a message
\* with a UUID-shaped token the UUID placeholder.
C40_AsStated ==
  (llm.op = "extract" /\ ~IsNone(llm.once)
     /\ Len(Val(llm.once)) < PatternCap) =>
    /\ HasTimestamp(llm.message) => Occurs(TIMESTAMP, Val(llm.once))
    /\ HasAddress(llm.message) => Occurs(ADDR, Val(llm.once))
    /\ HasUUID(llm.message) => Occurs(UUID, Val(llm.once))

====
